---- MODULE Spec2Model ----
(***************************************************************************)
(* Model of lora-gateway-bridge: the Semtech UDP packet-forwarder backend  *)
(* (package semtechudp), its gateway registry and the forwarder's          *)
(* connect / disconnect loops (package forwarder).                         *)
(*                                                                         *)
(* Goroutines are processes with a program counter; an unbuffered channel  *)
(* send is a rendezvous: the sender waits at a "send" position until the   *)
(* receiving goroutine takes the value.                                    *)
(***************************************************************************)
EXTENDS Integers, Sequences, FiniteSets, Bags, TLC

(* ------------------------------ bounds --------------------------------- *)
MaxPackets == 2        \* UDP packets read from the socket in one run
MaxPulls == 1          \* PULL_DATA read in a run with downlinks and the sweeper
MaxDownlinks == 1      \* SendDownlinkFrame calls in one run
MaxApplies == 1        \* ApplyConfiguration calls in one run
MaxFrames == 2         \* rxpk records of a PUSH_DATA in a run about event order
MaxTaken == 2          \* frames taken from the integration's downlink channel
MaxConfigured == 2     \* entries of the always-subscribe configuration
MaxAttempts == 4       \* connect() calls of the MQTT integration in one run
MaxLost == 1           \* connection losses in a run with the reconnect loop
MaxReconnects == 1     \* periodic reconnects in one run
MaxSends == 2          \* sendToGateway calls in one run
MaxOverlap == 2        \* ApplyConfiguration calls in a run about overlapping calls
MaxRxpk == 1           \* rxpk records decoded from one PUSH_DATA
MaxTime == 60          \* the clock stops here (seconds)
MaxCalls == 2          \* SubscribeGateway / UnsubscribeGateway calls in one run
MaxLosses == 2         \* losses of the broker connection in one run
MaxPublishes == 2       \* PublishEvent / PublishNotifyEvent calls in one run
MaxVersions == 1       \* Basic Station version messages answered in one run
MaxStations == 1       \* websocket connections in a run with router configurations
MaxConns == 3          \* websocket connections to /gateway/{id} in one run
MaxCommands == 1       \* broker messages handed to handleCommand in one run
MaxChunks == 3         \* pieces a topic is put together from

(* ------------------------- program constants --------------------------- *)
TokenMod == 65536      \* uint16(frame.Token)
SweepInterval == 60    \* time.Sleep(time.Minute) of the registry sweeper
CleanupAge == 30       \* registry entries older than this are evicted
TickStep == SweepInterval  \* the clock advances by one sweeper sleep

(* ------------------------------ inputs --------------------------------- *)
GatewayIDs == {1, 2}
NoVersion == ""
ConfigVersions == {"v1", "v2"}
FrameTokens == {43707, 65536 + 43707}

\* how a datagram presents itself on the wire: protocol version, random
\* token and source address
Profiles ==
  { [ProtocolVersion |-> 1, RandomToken |-> 4660, addr |-> "addr1"],
    [ProtocolVersion |-> 2, RandomToken |-> 43707, addr |-> "addr2"] }

\* the decoded body of a datagram: its packet type, whether UnmarshalBinary
\* accepts it, and what its payload holds
Body(ptype, ok, stat, rxpk, txerr) ==
  [ptype |-> ptype, ok |-> ok, stat |-> stat, rxpk |-> rxpk, txerr |-> txerr]

\* a gateway's packets: every packet type it may send, from either address
PullBodies == { Body("PullData", TRUE, "none", 0, "nil") }

PushBodies ==
  { Body("PushData", TRUE, "ok", n, "nil") : n \in 0..MaxRxpk }
  \cup { Body("PushData", TRUE, "none", MaxRxpk, "nil"),
         Body("PushData", TRUE, "bad", MaxRxpk, "nil") }

TXACKBodies ==
  { Body("TXACK", TRUE, "none", 0, e) : e \in {"nil", "", "NONE", "TOO_LATE"} }

Datagram(pr, mac, b) ==
  [addr |-> pr.addr, ProtocolVersion |-> pr.ProtocolVersion,
   RandomToken |-> pr.RandomToken, GatewayMAC |-> mac,
   ptype |-> b.ptype, ok |-> b.ok, stat |-> b.stat, rxpk |-> b.rxpk,
   txerr |-> b.txerr]

\* packets UnmarshalBinary rejects, and a packet type no handler exists for
BadDatagrams ==
  { Datagram(pr, pr.ProtocolVersion, Body(t, FALSE, "none", 0, "nil")) :
      pr \in Profiles, t \in {"PullData", "PushData", "TXACK"} }
  \cup { Datagram(pr, pr.ProtocolVersion, Body("PullResp", TRUE, "none", 0, "nil")) :
      pr \in Profiles }

\* PULL_DATA: gateway 1 keeps its address, gateway 2 may change its address
\* and its protocol version
PullInputs ==
  { up \in { Datagram(pr, mac, b) :
               pr \in Profiles, mac \in GatewayIDs, b \in PullBodies } :
      up.ProtocolVersion <= up.GatewayMAC }
  \cup { up \in BadDatagrams : up.ptype = "PullData" /\ up.GatewayMAC = 1 }

\* the PULL_DATA of the gateway that is not always subscribed
PullInputs2 == { up \in PullInputs : up.GatewayMAC = 2 }

\* the same gateway from one address only
PullInputs22 == { up \in PullInputs2 : up.ProtocolVersion = 2 }

\* PUSH_DATA and TX_ACK: gateway 1 speaks version 1, gateway 2 version 2
ProfileOf(mac) == CHOOSE pr \in Profiles : pr.ProtocolVersion = mac

PushInputs ==
  { Datagram(ProfileOf(mac), mac, b) : mac \in GatewayIDs, b \in PushBodies }
  \cup { up \in BadDatagrams : up.ptype = "PushData" /\ up.GatewayMAC = 1 }

\* PUSH_DATA of one gateway with and without a stat record and with up to
\* MaxFrames rxpk records
OrderInputs ==
  { Datagram(ProfileOf(1), 1, Body("PushData", TRUE, stat, n, "nil")) :
      stat \in {"ok", "none"}, n \in 0..MaxFrames }

\* one packet of every type from the gateway that is not always subscribed
ForwardInputs ==
  PullInputs22
  \cup { Datagram(ProfileOf(2), 2, Body("PushData", TRUE, "ok", 1, "nil")),
         Datagram(ProfileOf(2), 2, Body("TXACK", TRUE, "none", 0, "nil")) }

\* PUSH_DATA that carries a stat record and no rxpk record
StatInputs == { up \in PushInputs : up.stat = "ok" /\ up.rxpk = 0 }

TXACKInputs ==
  { Datagram(ProfileOf(mac), mac, b) : mac \in GatewayIDs, b \in TXACKBodies }
  \cup BadDatagrams

\* the packets of every type of the gateway that is not always subscribed
SilenceInputs ==
  PullInputs22
  \cup { up \in PushInputs : up.GatewayMAC = 2 /\ up.stat = "none" }
  \cup { up \in TXACKInputs : up.GatewayMAC = 2 /\ up.ok /\ up.txerr = "NONE" }

\* topics are strings, modelled as sequences of characters; they are put
\* together from these pieces
TopicChunks ==
  { << "g", "/" >>,
    << "d", "o", "w", "n" >>,
    << "c", "o", "n", "f", "i", "g" >>,
    << "c", "o", "m", "m", "a", "n", "d", "=" >> }

RECURSIVE TopicsOf(_)
TopicsOf(n) ==
  IF n = 0 THEN { << >> }
  ELSE LET shorter == TopicsOf(n - 1)
       IN shorter \cup { t \o c : t \in shorter, c \in TopicChunks }

\* the topics of the broker messages
Topics == TopicsOf(MaxChunks) \ { << >> }

\* a broker message: its topic, and whether b.unmarshal accepts its payload
\* as a DownlinkFrame and as a GatewayConfiguration
Messages ==
  [topic : Topics, okDown : BOOLEAN, okConfig : BOOLEAN]

\* a topic template is a sequence of parts: literal text, or {{ .Field }}
Lit(text) == [kind |-> "text", v |-> text]
Field(name) == [kind |-> "field", v |-> name]

\* event-topic templates an operator may configure
EventTopicTemplates ==
  { << Lit("gateway/"), Field("GatewayID"), Lit("/event/"), Field("EventType") >>,
    << Lit("gw/"), Field("EventType"), Lit("/"), Field("GatewayID") >> }

\* notify-topic templates an operator may configure
NotifyTopicTemplates ==
  { << Lit("gateway/notify/"), Field("NotifyType") >>,
    << Lit("gateway/notify/"), Field("EventType") >> }

\* command-topic templates an operator may configure
CommandTopicTemplates ==
  { << Lit("gateway/"), Field("GatewayID"), Lit("/command/#") >> }

AuthTypes == { "generic", "gcp_cloud_iot_core", "azure_iot_hub" }

\* conf.Integration.MQTT as read from the configuration file
Confs ==
  [authType : AuthTypes,
   EventTopicTemplate : EventTopicTemplates,
   NotifyTopicTemplate : NotifyTopicTemplates,
   CommandTopicTemplate : CommandTopicTemplates]

\* the configuration of the runs that are not about topics
DefaultConf ==
  [authType |-> "generic",
   EventTopicTemplate |->
     << Lit("gateway/"), Field("GatewayID"), Lit("/event/"), Field("EventType") >>,
   NotifyTopicTemplate |-> << Lit("gateway/notify/"), Field("NotifyType") >>,
   CommandTopicTemplate |->
     << Lit("gateway/"), Field("GatewayID"), Lit("/command/#") >>]

\* event types of PublishEvent, and the notify type of PublishNotifyEvent
EventTypes == { "up", "stats", "ack" }
NotifyTypes == { "mac" }

\* downlink frames handed to SendDownlinkFrame: Token is a uint32, and
\* GetPullRespPacket may reject a frame
DownlinkFrames ==
  { [GatewayId |-> 2, Token |-> tok, encodable |-> TRUE] : tok \in FrameTokens }
  \cup { [GatewayId |-> 2, Token |-> 43707, encodable |-> FALSE],
         [GatewayId |-> 1, Token |-> 43707, encodable |-> TRUE] }

\* the frames whose Token does not fit 16 bits, and the frame that does not
\* encode
DownlinkFrames2 ==
  { f \in DownlinkFrames : f.GatewayId = 2 /\ (f.Token >= TokenMod \/ ~f.encodable) }

\* frames for a gateway that registers and for one that never does, and a
\* frame that does not encode
ForwardFrames ==
  { f \in DownlinkFrames : (f.encodable /\ f.Token < TokenMod) \/ ~f.encodable }

\* the frames that encode and whose Token fits 16 bits
DownlinkFramesOK == { f \in DownlinkFrames : f.encodable /\ f.Token < TokenMod }

VARIABLES
  handlers,        \* one handler goroutine per packet read (readPackets)
  gateways,        \* Backend.gateways.gateways: id -> gateway
  configurations,  \* Backend.configurations
  closed,          \* Backend.closed
  sender,          \* the sendPackets goroutine
  written,         \* bag of the datagrams written to the UDP socket
  sweeper,         \* the registry sweeper goroutine
  now,             \* time.Now(), in seconds
  connLoop,        \* forwarder.onConnectedLoop
  discLoop,        \* forwarder.onDisconnectedLoop
  subscribeCalls,  \* integration.SubscribeGateway calls, per id
  unsubscribeCalls,\* integration.UnsubscribeGateway calls, per id
  lifecycle,       \* history: the calls of the two lifecycle loops, in order
  downlinks,       \* SendDownlinkFrame calls
  applies,         \* ApplyConfiguration calls
  outputFile,      \* content of pfConfiguration.outputFile, per id
  lastPull,        \* history: handler whose set wrote the registry entry
  lastApplied,     \* history: version of the last successful apply, per id
  wg,              \* Backend.wg: the counter of the sync.WaitGroup
  conn,            \* Backend.conn: the UDP socket, "open" or "closed"
  udpSendChan,     \* Backend.udpSendChan: "open" or "closed"
  reader,          \* the goroutine of NewBackend that runs readPackets
  closeCall,       \* the Close call
  mqttConn,        \* mqtt.Backend.conn: connections made so far, and its state
  mqttGateways,    \* mqtt.Backend.gateways: the known-subscriptions set
  brokerSubs,      \* gateway ids the broker holds a subscription for
  mqttCalls,       \* SubscribeGateway / UnsubscribeGateway calls
  onConns,         \* onConnected goroutines, one per connection made
  lostHandler,     \* the onConnectionLost goroutine
  losses,          \* connection losses so far
  lastOk,          \* history: the last successful call per id
  commands,        \* handleCommand calls, one per broker message
  templates,       \* auth type and the three parsed topic templates
  publishes,       \* history: the PublishEvent / PublishNotifyEvent calls
  forwarded,       \* history: the publish calls of the forwarder's goroutines
  taken,           \* frames forwardDownlinkFrameLoop received, with their calls
  process,         \* the run command: its position, the signal it received
                   \* and the Close calls it has made
  setup,           \* forwarder.Setup: its inputs, position, subscribes and loops
  mqttNew,         \* mqtt.NewBackend: its position
  bAuth,           \* the authentication provider: ReconnectAfter and, as
                   \* history, the Init / Update / Connect calls in order
  clients,         \* the paho clients made so far and their state
  bConn,           \* b.conn: the client the backend references, 0 when none
  connectLoops,    \* the connectLoop calls, running or returned
  reconnectLoop,   \* the periodic reconnect goroutine
  mqttClose,       \* b.closed and the position of the Close call
  bsGateways,      \* Basic Station registry: id -> connection, 0 when none
  bsConns,         \* Basic Station handleGateway goroutines, one per connection
  bsApplies,       \* history: Basic Station ApplyConfiguration calls
  bsStats,         \* GatewayStats delivered by handleVersion
  bsSends,         \* sendToGateway calls of SendDownlinkFrame and
                   \* ApplyConfiguration, writing or returned
  pings            \* the ping goroutine of each websocket connection

\* the state of the MQTT integration
pubVars == << templates, publishes, forwarded, taken >>
mqttVars == << mqttConn, mqttGateways, brokerSubs, mqttCalls, onConns,
               lostHandler, losses, lastOk, commands, pubVars >>

\* the state of the Semtech UDP backend and of the forwarder
udpVars == << handlers, gateways, configurations, closed, sender, written, sweeper,
              now, connLoop, discLoop, subscribeCalls, unsubscribeCalls, lifecycle,
              downlinks, applies, outputFile, lastPull, lastApplied, wg, conn,
              udpSendChan, reader, closeCall >>

\* the writers of the websocket connections
wsVars == << bsSends, pings >>
bsVars == << bsGateways, bsConns, bsApplies, bsStats, wsVars >>
\* the broker connection of the MQTT integration and what maintains it
linkVars == << mqttNew, bAuth, clients, bConn, connectLoops, reconnectLoop,
               mqttClose >>
vars == << udpVars, mqttVars, process, setup, linkVars, bsVars >>

\* no websocket connection
NoConn == 0

(* ----------------------------- helpers --------------------------------- *)
\* var alwaysSubscribe []lorawan.EUI64, filled by Setup from the configured
\* packet-forwarder configurations
alwaysSubscribe == << 1 >>

\* the found flag computed by the scan of alwaysSubscribe in the two loops
found(gatewayID) == \E k \in DOMAIN alwaysSubscribe : alwaysSubscribe[k] = gatewayID

\* a datagram as it travels over udpSendChan; src names the goroutine that
\* produced it (history only)
udpPacket(src, addr, ptype, version, token) ==
  [src |-> src, addr |-> addr, ptype |-> ptype,
   ProtocolVersion |-> version, RandomToken |-> token]

(* --------------------------- Backend lock ------------------------------ *)
\* handlePacket holds b.RLock from its first statement to its return
HoldsRLock(i) == handlers[i].pc \notin {"rlock", "done"}

\* a goroutine inside b.Lock() that has not acquired the lock yet
WriterWaiting == \E j \in DOMAIN applies : applies[j].pc \in {"lock1", "lock2"}

\* Close returned the error of conn.Close() without b.Unlock()
LockLeftHeld == closeCall.pc = "returned" /\ closeCall.err # ""

\* sync.RWMutex: a reader is admitted when no writer holds or awaits the lock
CanRLock == ~WriterWaiting /\ closeCall.pc # "lock" /\ ~LockLeftHeld

\* a writer is admitted when no reader and no writer holds the lock
CanLock == (\A i \in DOMAIN handlers : ~HoldsRLock(i)) /\ ~LockLeftHeld

(* ----------------------------- registry -------------------------------- *)
\* gateways.get: the entry of an id, when there is one
gatewaysHas(gatewayID) == gatewayID \in DOMAIN gateways

\* gateways.set: the map after the upsert of mac
gatewaysSet(mac, gw) ==
  [id \in (DOMAIN gateways) \cup {mac} |-> IF id = mac THEN gw ELSE gateways[id]]

\* a set that emits on connectChan on every call
setEmitsConnect_always(mac) == TRUE

\* gateways.set emits on connectChan when the id was absent
setEmitsConnect(mac) == ~gatewaysHas(mac)

\* gateways.cleanup: the ids whose entry is older than CleanupAge
stale == { id \in DOMAIN gateways : now - gateways[id].lastSeen > CleanupAge }

(* ----------------------- packets built by handlers ---------------------- *)
\* PullACK with a fixed protocol version instead of the request's
PullACK_fixedVersion(i, up) ==
  udpPacket(<<"h", i>>, up.addr, "PullACK", 2, up.RandomToken)

\* packets.PullACKPacket{ProtocolVersion, RandomToken} sent to up.addr
PullACK(i, up) ==
  udpPacket(<<"h", i>>, up.addr, "PullACK", up.ProtocolVersion, up.RandomToken)

\* packets.PushACKPacket{ProtocolVersion, RandomToken} sent to up.addr
PushACK(i, up) ==
  udpPacket(<<"h", i>>, up.addr, "PushACK", up.ProtocolVersion, up.RandomToken)

\* DownlinkTXAck that passes the "NONE" of a successful transmission through
DownlinkTXAck_passNone(up) ==
  [kind |-> "ack", GatewayId |-> up.GatewayMAC, Token |-> up.RandomToken,
   Error |-> IF up.txerr # "nil" THEN up.txerr ELSE "",
   ConfigVersion |-> NoVersion]

\* the gw.DownlinkTXAck built by handleTXACK
DownlinkTXAck(up) ==
  [kind |-> "ack", GatewayId |-> up.GatewayMAC, Token |-> up.RandomToken,
   Error |-> IF up.txerr # "nil" /\ up.txerr # "" /\ up.txerr # "NONE"
             THEN up.txerr ELSE "",
   ConfigVersion |-> NoVersion]

\* handleStats that leaves stats.ConfigVersion unset
ConfigVersionOf_unset(gatewayID) == NoVersion

\* handleStats: the currentVersion of the last configuration of the id
ConfigVersionOf(gatewayID) ==
  LET m == { k \in DOMAIN configurations : configurations[k].gatewayID = gatewayID }
  IN IF m = {} THEN NoVersion
     ELSE configurations[CHOOSE k \in m : \A l \in m : l <= k].currentVersion

GatewayStats(up, cv) ==
  [kind |-> "stats", GatewayId |-> up.GatewayMAC, Token |-> 0, Error |-> "",
   ConfigVersion |-> cv]

\* the gw.UplinkFrame of the k-th rxpk record of the packet
UplinkFrame(up, k) ==
  [kind |-> "up", GatewayId |-> up.GatewayMAC, Token |-> 0, Error |-> "",
   ConfigVersion |-> NoVersion, rxpk |-> k]

NotifyMac(up) ==
  [kind |-> "notify", GatewayId |-> up.GatewayMAC, Token |-> 0, Error |-> "",
   ConfigVersion |-> NoVersion]

(* --------------------------- MQTT integration -------------------------- *)
\* mqtt.NewBackend returns after connectLoop made the first connection, and
\* forwarder.Setup has subscribed every always-subscribe id with success
mqttNewBackend ==
  /\ mqttConn = [n |-> 1, up |-> TRUE]
  /\ mqttGateways = { id \in GatewayIDs : found(id) }
  /\ brokerSubs = { id \in GatewayIDs : found(id) }
  /\ mqttCalls = << >>
  /\ onConns = << >>
  /\ lostHandler = [pc |-> "idle"]
  /\ losses = 0
  /\ lastOk = [id \in GatewayIDs |-> IF found(id) THEN "subscribe" ELSE "none"]
  /\ commands = << >>

\* mqtt.Backend's RWMutex: onConnected holds the read lock while it
\* re-subscribes
mqttHoldsRLock(k) == onConns[k].pc = "subscribe"

\* goroutines inside b.Lock() that have not acquired the lock yet
mqttWriterWaiting ==
  \/ \E j \in DOMAIN mqttCalls : mqttCalls[j].pc = "lock"
  \/ lostHandler.pc = "connect"

mqttCanRLock == ~mqttWriterWaiting

mqttCanLock == \A k \in DOMAIN onConns : ~mqttHoldsRLock(k)

\* what a broker operation may answer: it fails without a connection, and
\* the broker may refuse it
brokerAnswers == IF mqttConn.up THEN BOOLEAN ELSE {FALSE}

\* the forwarder calls SubscribeGateway or UnsubscribeGateway, which waits in
\* b.Lock()
mqttCall ==
  /\ Len(mqttCalls) < MaxCalls
  /\ \E op \in {"subscribe", "unsubscribe"}, id \in GatewayIDs :
       mqttCalls' = Append(mqttCalls,
         [op |-> op, id |-> id, pc |-> "lock", err |-> ""])
  /\ UNCHANGED << process, setup, linkVars, bsVars, udpVars, pubVars, commands, mqttConn, mqttGateways, brokerSubs, onConns,
                  lostHandler, losses, lastOk >>

\* SubscribeGateway that records the id whatever the broker answered
gatewaysAfterSubscribe_always(id, ok) == mqttGateways \cup {id}

\* SubscribeGateway: b.gateways[gatewayID] = struct{}{} after subscribeGateway
\* returned nil
gatewaysAfterSubscribe(id, ok) ==
  IF ok THEN mqttGateways \cup {id} ELSE mqttGateways

\* SubscribeGateway under the lock: subscribeGateway, then record the id
SubscribeGateway(j) ==
  LET c == mqttCalls[j]
  IN /\ c.op = "subscribe"
     /\ c.pc = "lock"
     /\ mqttCanLock
     /\ \E ok \in brokerAnswers :
          /\ brokerSubs' = IF ok THEN brokerSubs \cup {c.id} ELSE brokerSubs
          /\ mqttGateways' = gatewaysAfterSubscribe(c.id, ok)
          /\ lastOk' = IF ok THEN [lastOk EXCEPT ![c.id] = "subscribe"] ELSE lastOk
          /\ mqttCalls' = [mqttCalls EXCEPT ![j] =
               [c EXCEPT !.pc = "done",
                         !.err = IF ok THEN "" ELSE "subscribe topic error"]]
     /\ UNCHANGED << process, setup, linkVars, bsVars, udpVars, pubVars, commands, mqttConn, onConns, lostHandler, losses >>

\* UnsubscribeGateway under the lock: unsubscribe at the broker, then
\* delete(b.gateways, gatewayID)
UnsubscribeGateway(j) ==
  LET c == mqttCalls[j]
  IN /\ c.op = "unsubscribe"
     /\ c.pc = "lock"
     /\ mqttCanLock
     /\ \E ok \in brokerAnswers :
          /\ brokerSubs' = IF ok THEN brokerSubs \ {c.id} ELSE brokerSubs
          /\ mqttGateways' = IF ok THEN mqttGateways \ {c.id} ELSE mqttGateways
          /\ lastOk' = IF ok THEN [lastOk EXCEPT ![c.id] = "unsubscribe"] ELSE lastOk
          /\ mqttCalls' = [mqttCalls EXCEPT ![j] =
               [c EXCEPT !.pc = "done",
                         !.err = IF ok THEN "" ELSE "unsubscribe topic error"]]
     /\ UNCHANGED << process, setup, linkVars, bsVars, udpVars, pubVars, commands, mqttConn, onConns, lostHandler, losses >>

\* the client loses its connection: the session and its subscriptions are
\* gone, and the client library runs onConnectionLost in a goroutine
connectionLost ==
  /\ mqttConn.up
  /\ losses < MaxLosses
  /\ losses' = losses + 1
  /\ mqttConn' = [mqttConn EXCEPT !.up = FALSE]
  /\ brokerSubs' = {}
  /\ lostHandler' = [pc |-> "connect"]
  /\ UNCHANGED << process, setup, linkVars, bsVars, udpVars, pubVars, commands, mqttGateways, mqttCalls, onConns, lastOk >>

\* onConnectionLost: connectLoop; connect() takes b.Lock(), makes a new
\* client and connects it, and the client library runs onConnected in a
\* goroutine; a failed attempt leaves the state as it is and is repeated
\* two seconds later
onConnectionLost ==
  /\ lostHandler.pc = "connect"
  /\ mqttCanLock
  /\ mqttConn' = [n |-> mqttConn.n + 1, up |-> TRUE]
  /\ onConns' = Append(onConns,
       [pc |-> "rlock", todo |-> {}, conn |-> mqttConn.n + 1])
  /\ lostHandler' = [pc |-> "idle"]
  /\ UNCHANGED << process, setup, linkVars, bsVars, udpVars, pubVars, commands, mqttGateways, brokerSubs, mqttCalls, losses, lastOk >>

\* onConnected: b.RLock(), then range over b.gateways
onConnected_rlock(k) ==
  LET o == onConns[k]
  IN /\ o.pc = "rlock"
     /\ mqttCanRLock
     /\ onConns' = [onConns EXCEPT ![k] =
          IF mqttGateways = {} THEN [o EXCEPT !.pc = "done"]
          ELSE [o EXCEPT !.pc = "subscribe", !.todo = mqttGateways]]
     /\ UNCHANGED << process, setup, linkVars, bsVars, udpVars, pubVars, commands, mqttConn, mqttGateways, brokerSubs, mqttCalls,
                     lostHandler, losses, lastOk >>

\* onConnected that goes on to the next gateway after a failed subscribe
afterSubscribe_noRetry(o, id, ok) ==
  LET rest == o.todo \ {id}
  IN [o EXCEPT !.todo = rest, !.pc = IF rest = {} THEN "done" ELSE "subscribe"]

\* onConnected, the inner loop: continue (the same gateway again, a second
\* later) after an error, break to the next gateway after a success
afterSubscribe(o, id, ok) ==
  LET rest == o.todo \ {id}
  IN IF ok
     THEN [o EXCEPT !.todo = rest, !.pc = IF rest = {} THEN "done" ELSE "subscribe"]
     ELSE o

\* onConnected: one b.subscribeGateway(gatewayID) of the loop
onConnected_subscribe(k) ==
  LET o == onConns[k]
  IN /\ o.pc = "subscribe"
     /\ \E id \in o.todo, ok \in brokerAnswers :
          /\ brokerSubs' = IF ok THEN brokerSubs \cup {id} ELSE brokerSubs
          /\ onConns' = [onConns EXCEPT ![k] = afterSubscribe(o, id, ok)]
     /\ UNCHANGED << process, setup, linkVars, bsVars, udpVars, pubVars, commands, mqttConn, mqttGateways, mqttCalls, lostHandler,
                     losses, lastOk >>

(* ------------------------ broker connection --------------------------- *)
\* the connect() calls made so far
attempts == Cardinality({ n \in DOMAIN bAuth.calls : bAuth.calls[n].op = "Update" })

\* ReconnectAfter of the provider: 0 for a provider without periodic
\* reconnect, a positive duration otherwise
ReconnectAfters == { 0, 1 }

\* NewBackend: b.auth.Init(b.clientOpts), then the first connectLoop
mqttAuthInit ==
  /\ mqttNew = "new"
  /\ \E ra \in ReconnectAfters, ok \in BOOLEAN :
       /\ bAuth' = [reconnectAfter |-> ra,
                   calls |-> << [op |-> "Init", ok |-> ok, loop |-> 0] >>]
       /\ mqttNew' = IF ok THEN "connectLoop" ELSE "failed"
       /\ connectLoops' = IF ok THEN << [by |-> "new", pc |-> "connect"] >>
                          ELSE << >>
  /\ UNCHANGED << process, setup, udpVars, mqttVars, bsVars, clients, bConn,
                  reconnectLoop, mqttClose >>

\* a connect() that goes on to the broker whatever Update returned
connectAfterUpdate_always(updOk) == TRUE

\* connect(): an error of b.auth.Update is returned before any client is made
connectAfterUpdate(updOk) == updOk

\* one iteration of connectLoop l: connect() under b.Lock() calls
\* b.auth.Update, makes a new client, stores it in b.conn and connects it;
\* after an error the loop sleeps two seconds and tries again
connect(l) ==
  /\ connectLoops[l].pc = "connect"
  /\ attempts < MaxAttempts
  /\ \E updOk \in BOOLEAN, connOk \in BOOLEAN :
       LET upd == [op |-> "Update", ok |-> updOk, loop |-> l]
           c == Len(clients) + 1
       IN IF connectAfterUpdate(updOk)
          THEN /\ bAuth' = [bAuth EXCEPT !.calls =
                    @ \o << upd, [op |-> "Connect", ok |-> connOk, loop |-> l] >>]
               /\ clients' = Append(clients,
                    [state |-> IF connOk THEN "connected" ELSE "failed",
                     afterClose |-> mqttClose.pc = "returned"])
               /\ bConn' = c
               /\ connectLoops' = [connectLoops EXCEPT ![l].pc =
                    IF connOk THEN "done" ELSE "connect"]
          ELSE /\ connOk
               /\ bAuth' = [bAuth EXCEPT !.calls = Append(@, upd)]
               /\ UNCHANGED << clients, bConn, connectLoops >>
  /\ UNCHANGED << process, setup, udpVars, mqttVars, bsVars, mqttNew,
                  reconnectLoop, mqttClose >>

\* NewBackend after its connectLoop returned: go b.reconnectLoop(), return
mqttNewBackend_return ==
  /\ mqttNew = "connectLoop"
  /\ connectLoops[1].pc = "done"
  /\ mqttNew' = "returned"
  /\ reconnectLoop' = [reconnectLoop EXCEPT
       !.pc = IF bAuth.reconnectAfter > 0 THEN "check" ELSE "done"]
  /\ UNCHANGED << process, setup, udpVars, mqttVars, bsVars, bAuth, clients,
                  bConn, connectLoops, mqttClose >>

\* a connected client loses its connection and the client library runs
\* onConnectionLost in a goroutine: connectLoop
onConnectionLost_connectLoop ==
  /\ Cardinality({ l \in DOMAIN connectLoops : connectLoops[l].by = "lost" })
       < MaxLost
  /\ \E c \in DOMAIN clients :
       /\ clients[c].state = "connected"
       /\ clients' = [clients EXCEPT ![c].state = "lost"]
  /\ connectLoops' = Append(connectLoops, [by |-> "lost", pc |-> "connect"])
  /\ UNCHANGED << process, setup, udpVars, mqttVars, bsVars, mqttNew, bAuth,
                  bConn, reconnectLoop, mqttClose >>

\* reconnectLoop, top of the loop: break when b.closed, otherwise sleep
reconnectLoop_check ==
  /\ reconnectLoop.pc = "check"
  /\ reconnectLoop' = [reconnectLoop EXCEPT
       !.pc = IF mqttClose.closed \/ reconnectLoop.n >= MaxReconnects
              THEN "done" ELSE "sleep"]
  /\ UNCHANGED << process, setup, udpVars, mqttVars, bsVars, mqttNew, bAuth,
                  clients, bConn, connectLoops, mqttClose >>

\* Disconnect of the client b.conn references
disconnected(cs) ==
  [c \in DOMAIN cs |->
     IF c = bConn /\ cs[c].state = "connected"
     THEN [cs[c] EXCEPT !.state = "disconnected"] ELSE cs[c]]

\* reconnectLoop after time.Sleep(ReconnectAfter): b.disconnect() under
\* b.Lock(), then b.connectLoop()
reconnectLoop_disconnect ==
  /\ reconnectLoop.pc = "sleep"
  /\ clients' = disconnected(clients)
  /\ connectLoops' = Append(connectLoops, [by |-> "reconnect", pc |-> "connect"])
  /\ reconnectLoop' = [pc |-> "connectLoop", n |-> reconnectLoop.n + 1,
                       loop |-> Len(connectLoops) + 1]
  /\ UNCHANGED << process, setup, udpVars, mqttVars, bsVars, mqttNew, bAuth,
                  bConn, mqttClose >>

\* reconnectLoop: its connectLoop returned, back to the top of the loop
reconnectLoop_connected ==
  /\ reconnectLoop.pc = "connectLoop"
  /\ connectLoops[reconnectLoop.loop].pc = "done"
  /\ reconnectLoop' = [reconnectLoop EXCEPT !.pc = "check"]
  /\ UNCHANGED << process, setup, udpVars, mqttVars, bsVars, mqttNew, bAuth,
                  clients, bConn, connectLoops, mqttClose >>

\* Close: b.closed = true under b.Lock()
mqttClose_flag ==
  /\ mqttNew = "returned"
  /\ mqttClose.pc = "idle"
  /\ mqttClose' = [closed |-> TRUE, pc |-> "disconnect"]
  /\ UNCHANGED << process, setup, udpVars, mqttVars, bsVars, mqttNew, bAuth,
                  clients, bConn, connectLoops, reconnectLoop >>

\* Close: b.conn.Disconnect(250), return nil
mqttClose_disconnect ==
  /\ mqttClose.pc = "disconnect"
  /\ clients' = disconnected(clients)
  /\ mqttClose' = [mqttClose EXCEPT !.pc = "returned"]
  /\ UNCHANGED << process, setup, udpVars, mqttVars, bsVars, mqttNew, bAuth,
                  bConn, connectLoops, reconnectLoop >>

(* ------------------------------ topic templates ----------------------- *)
\* NewBackend keeps the configured templates
topicTemplates_asConfigured(conf) ==
  [authType |-> conf.authType,
   event |-> conf.EventTopicTemplate,
   notify |-> conf.NotifyTopicTemplate,
   command |-> conf.CommandTopicTemplate]

\* NewBackend: the switch on the auth type overwrites the three templates
\* for gcp_cloud_iot_core and azure_iot_hub, then they are parsed
topicTemplates(conf) ==
  CASE conf.authType = "gcp_cloud_iot_core" ->
         [authType |-> conf.authType,
          event |-> << Lit("/devices/gw-"), Field("GatewayID"),
                       Lit("/events/"), Field("EventType") >>,
          notify |-> << Lit("/devices/notify/"), Field("EventType") >>,
          command |-> << Lit("/devices/gw-"), Field("GatewayID"),
                         Lit("/commands/#") >>]
    [] conf.authType = "azure_iot_hub" ->
         [authType |-> conf.authType,
          event |-> << Lit("devices/"), Field("GatewayID"),
                       Lit("/messages/events/"), Field("EventType") >>,
          notify |-> << Lit("/devices/notify/"), Field("EventType") >>,
          command |-> << Lit("devices/"), Field("GatewayID"),
                         Lit("/messages/devicebound/#") >>]
    [] OTHER -> topicTemplates_asConfigured(conf)

mqttTemplates(confs) ==
  /\ \E conf \in confs : templates = topicTemplates(conf)
  /\ publishes = << >>

\* template.Execute(topic, data): data is a struct, given as a record; a
\* field the struct does not have is an execution error
Execute(tpl, data) ==
  IF \E k \in DOMAIN tpl :
       tpl[k].kind = "field" /\ tpl[k].v \notin DOMAIN data
  THEN [err |-> TRUE, topic |-> << >>]
  ELSE [err |-> FALSE,
        topic |-> [k \in DOMAIN tpl |->
                     IF tpl[k].kind = "field" THEN data[tpl[k].v]
                     ELSE tpl[k].v]]

\* publish / publishNotify after the template: conn.Publish and its token
published(call, args, ex, ok) ==
  [call |-> call, args |-> args,
   err |-> IF ex.err THEN "template" ELSE IF ok THEN "" ELSE "publish",
   topic |-> ex.topic]

\* PublishEvent -> publish
PublishEvent ==
  /\ Len(publishes) < MaxPublishes
  /\ \E id \in GatewayIDs, event \in EventTypes, ok \in brokerAnswers :
       publishes' = Append(publishes,
         published("PublishEvent", << id, event >>,
           Execute(templates.event, [GatewayID |-> id, EventType |-> event]),
           ok))
  /\ UNCHANGED << process, setup, linkVars, bsVars, udpVars, mqttConn, mqttGateways, brokerSubs, mqttCalls,
                  onConns, lostHandler, losses, lastOk, commands, templates,
                  forwarded, taken >>

\* PublishNotifyEvent -> publishNotify
PublishNotifyEvent ==
  /\ Len(publishes) < MaxPublishes
  /\ \E event \in NotifyTypes, ok \in brokerAnswers :
       publishes' = Append(publishes,
         published("PublishNotifyEvent", << event >>,
           Execute(templates.notify, [NotifyType |-> event]),
           ok))
  /\ UNCHANGED << process, setup, linkVars, bsVars, udpVars, mqttConn, mqttGateways, brokerSubs, mqttCalls,
                  onConns, lostHandler, losses, lastOk, commands, templates,
                  forwarded, taken >>

(* ------------------------------- forwarder ----------------------------- *)
\* the events the forwarder's loops have received from the backend's
\* channels, by handler and position; each loop starts one goroutine for
\* every event it receives
receivedEvents ==
  UNION { { << i, k >> : k \in DOMAIN handlers[i].events } : i \in DOMAIN handlers }

\* a forwarder that hands every event to PublishEvent as a stats event
forwardCall_allStats(e) ==
  [call |-> "PublishEvent", args |-> << e.GatewayId, "stats" >>]

\* the integration call of the goroutine of each forward loop:
\* forwardUplinkFrameLoop, forwardGatewayStatsLoop, forwardDownlinkTxAckLoop
\* and forwardGatewayNotifyMacLoop
forwardCall(e) ==
  CASE e.kind = "up" ->
         [call |-> "PublishEvent", args |-> << e.GatewayId, "up" >>]
    [] e.kind = "stats" ->
         [call |-> "PublishEvent", args |-> << e.GatewayId, "stats" >>]
    [] e.kind = "ack" ->
         [call |-> "PublishEvent", args |-> << e.GatewayId, "ack" >>]
    [] e.kind = "notify" ->
         [call |-> "PublishNotifyEvent", args |-> << "mac" >>]

\* the goroutine of an event makes its call once: an error is logged
callsOf(src) == { f \in forwarded : f.src = src }

\* the goroutine a forward loop started for an event: one PublishEvent or
\* PublishNotifyEvent call with the event as the message
forwardPublish ==
  /\ \E src \in receivedEvents, ok \in brokerAnswers :
       LET e == handlers[src[1]].events[src[2]]
           c == forwardCall(e)
           ex == IF c.call = "PublishEvent"
                 THEN Execute(templates.event,
                        [GatewayID |-> c.args[1], EventType |-> c.args[2]])
                 ELSE Execute(templates.notify, [NotifyType |-> c.args[1]])
           p == published(c.call, c.args, ex, ok)
       IN /\ callsOf(src) = {}
          /\ forwarded' = forwarded \cup
               { [src |-> src, call |-> p.call, args |-> p.args,
                  msg |-> e.GatewayId, err |-> p.err, topic |-> p.topic] }
  /\ UNCHANGED << process, setup, linkVars, bsVars, udpVars, mqttConn, mqttGateways, brokerSubs,
                  mqttCalls, onConns, lostHandler, losses, lastOk, commands,
                  templates, publishes, taken >>

(* ------------------------------ handleCommand -------------------------- *)
\* strings.HasSuffix(s, suffix)
HasSuffix(s, suffix) ==
  /\ Len(s) >= Len(suffix)
  /\ SubSeq(s, Len(s) - Len(suffix) + 1, Len(s)) = suffix

\* strings.Contains(s, substr)
Contains(s, substr) ==
  \E i \in 1..(Len(s) - Len(substr) + 1) :
    SubSeq(s, i, i + Len(substr) - 1) = substr

strDown == << "d", "o", "w", "n" >>
strConfig == << "c", "o", "n", "f", "i", "g" >>
strCommandDown == << "c", "o", "m", "m", "a", "n", "d", "=" >> \o strDown
strCommandConfig == << "c", "o", "m", "m", "a", "n", "d", "=" >> \o strConfig

\* the first test of handleCommand
isDown(topic) == HasSuffix(topic, strDown) \/ Contains(topic, strCommandDown)

\* the second test of handleCommand
isConfig(topic) == HasSuffix(topic, strConfig) \/ Contains(topic, strCommandConfig)

\* handleCommand that looks at the end of the topic only
route_suffixOnly(msg) ==
  CASE HasSuffix(msg.topic, strDown) ->
         IF msg.okDown THEN "sendDown" ELSE "done"
    [] ~HasSuffix(msg.topic, strDown) /\ HasSuffix(msg.topic, strConfig) ->
         IF msg.okConfig THEN "sendConfig" ELSE "done"
    [] OTHER -> "done"

\* handleCommand up to the channel send of handleDownlinkFrame or of
\* handleGatewayConfiguration: the if / else if on the topic, then b.unmarshal
route(msg) ==
  CASE isDown(msg.topic) ->
         IF msg.okDown THEN "sendDown" ELSE "done"
    [] ~isDown(msg.topic) /\ isConfig(msg.topic) ->
         IF msg.okConfig THEN "sendConfig" ELSE "done"
    [] OTHER -> "done"

\* the client hands a broker message to handleCommand
handleCommand ==
  /\ Len(commands) < MaxCommands
  /\ \E msg \in Messages :
       commands' = Append(commands,
         [msg |-> msg, pc |-> route(msg), out |-> << >>])
  /\ UNCHANGED << process, setup, linkVars, bsVars, udpVars, pubVars, mqttConn, mqttGateways, brokerSubs, mqttCalls,
                  onConns, lostHandler, losses, lastOk >>

\* handleDownlinkFrame: b.downlinkFrameChan <- downlinkFrame, taken by
\* forwardDownlinkFrameLoop
handleDownlinkFrame(c) ==
  /\ commands[c].pc = "sendDown"
  /\ commands' = [commands EXCEPT ![c].pc = "done",
                                  ![c].out = Append(@, "downlinkFrameChan")]
  /\ UNCHANGED << process, setup, linkVars, bsVars, udpVars, pubVars, mqttConn, mqttGateways, brokerSubs, mqttCalls,
                  onConns, lostHandler, losses, lastOk >>

\* handleGatewayConfiguration: b.gatewayConfigurationChan <- gatewayConfig,
\* taken by forwardGatewayConfigurationLoop
handleGatewayConfiguration(c) ==
  /\ commands[c].pc = "sendConfig"
  /\ commands' = [commands EXCEPT ![c].pc = "done",
                                  ![c].out = Append(@, "gatewayConfigurationChan")]
  /\ UNCHANGED << process, setup, linkVars, bsVars, udpVars, pubVars, mqttConn, mqttGateways, brokerSubs, mqttCalls,
                  onConns, lostHandler, losses, lastOk >>

(* ------------------------------- Init ---------------------------------- *)
\* the state NewBackend and forwarder.Setup leave: one configuration per
\* always-subscribe id, each subscribed once by Setup; the reader and the
\* writer goroutine are spawned, and started tells whether they have run
\* their b.wg.Add(1) yet
NewBackendConf(started, confs) ==
  /\ handlers = << >>
  /\ gateways = << >>
  /\ configurations =
       [k \in DOMAIN alwaysSubscribe |->
          [gatewayID |-> alwaysSubscribe[k], currentVersion |-> NoVersion]]
  /\ closed = FALSE
  /\ sender = [pc |-> IF started THEN "recv" ELSE "start", p |-> << >>]
  /\ written = EmptyBag
  /\ sweeper = [nextRun |-> 0, pending |-> {}]
  /\ now = 0
  /\ connLoop = [pc |-> "recv", id |-> 0]
  /\ discLoop = [pc |-> "recv", id |-> 0]
  /\ subscribeCalls = [id \in GatewayIDs |-> IF found(id) THEN 1 ELSE 0]
  /\ unsubscribeCalls = [id \in GatewayIDs |-> 0]
  /\ lifecycle = << >>
  /\ downlinks = << >>
  /\ applies = << >>
  /\ outputFile = [id \in GatewayIDs |-> NoVersion]
  /\ lastPull = [id \in GatewayIDs |-> 0]
  /\ lastApplied = [id \in GatewayIDs |-> NoVersion]
  /\ wg = IF started THEN 2 ELSE 0
  /\ conn = "open"
  /\ udpSendChan = "open"
  /\ reader = IF started THEN "read" ELSE "start"
  /\ closeCall = [pc |-> "idle", err |-> ""]
  /\ mqttNewBackend
  /\ mqttTemplates(confs)
  /\ forwarded = {}
  /\ taken = << >>
  /\ process = [pc |-> "wait", sig |-> "none", calls |-> << >>]
  /\ setup = [pc |-> "new", b |-> TRUE, i |-> TRUE, conf |-> << >>, n |-> 1,
              subs |-> << >>, loops |-> << >>, err |-> ""]
  /\ mqttNew = "new"
  /\ bAuth = [reconnectAfter |-> 0, calls |-> << >>]
  /\ clients = << >>
  /\ bConn = 0
  /\ connectLoops = << >>
  /\ reconnectLoop = [pc |-> "none", n |-> 0, loop |-> 0]
  /\ mqttClose = [closed |-> FALSE, pc |-> "idle"]
  /\ bsGateways =
       [id \in GatewayIDs |-> [conn |-> NoConn, configVersion |-> NoVersion]]
  /\ bsConns = << >>
  /\ bsApplies = << >>
  /\ bsStats = << >>
  /\ bsSends = << >>
  /\ pings = << >>

NewBackend(started) == NewBackendConf(started, { DefaultConf })

\* both I/O goroutines are running
Init == NewBackend(TRUE)

\* any configuration of the MQTT integration
InitConf == NewBackendConf(TRUE, Confs)

\* NewBackend has just returned: neither I/O goroutine has run yet
InitCreated == NewBackend(FALSE)

(* --------------------------- UDP backend ------------------------------- *)
\* readPackets: one datagram is read and a handler goroutine is spawned
readPackets(inputs, max) ==
  /\ reader = "read"
  /\ conn = "open"
  /\ Len(handlers) < max
  /\ \E up \in inputs :
       handlers' = Append(handlers,
         [up |-> up, pc |-> "rlock", rem |-> 0, cv |-> NoVersion,
          acks |-> << >>, events |-> << >>, err |-> "", at |-> now])
  /\ UNCHANGED << process, setup, linkVars, bsVars, mqttVars, wg, conn, udpSendChan, reader, closeCall,
                  closed, gateways, configurations, sender, written, sweeper, now,
                  connLoop, discLoop, subscribeCalls, unsubscribeCalls, lifecycle,
                  downlinks, applies, outputFile, lastPull, lastApplied >>

Finish(h, err) == [h EXCEPT !.pc = "done", !.err = err]

\* handlePushData after the ack: GetUplinkFrames and handleUplinkFrames
AfterStats(h) ==
  IF h.up.rxpk = 0 THEN Finish(h, "")
  ELSE [h EXCEPT !.pc = "uplink", !.rem = h.up.rxpk]

\* handlePushData after the ack: GetGatewayStats, then handleStats reads the
\* configuration version before it sends on gatewayStatsChan
AfterPushAck(h) ==
  CASE h.up.stat = "bad" -> Finish(h, "get stats error")
    [] h.up.stat = "ok" ->
         [h EXCEPT !.pc = "stats", !.cv = ConfigVersionOf(h.up.GatewayMAC)]
    [] OTHER -> AfterStats(h)

\* Dispatch whose handlePushData goes on to the stats and the uplink frames
\* without the PUSH_ACK
Dispatch_noPushAck(h) ==
  CASE closed -> Finish(h, "")
    [] ~closed /\ h.up.ptype \notin {"PushData", "PullData", "TXACK"} ->
         Finish(h, "unknown packet type")
    [] ~closed /\ h.up.ptype \in {"PushData", "PullData", "TXACK"} /\ ~h.up.ok ->
         Finish(h, "unmarshal error")
    [] ~closed /\ h.up.ptype = "PullData" /\ h.up.ok -> [h EXCEPT !.pc = "set"]
    [] ~closed /\ h.up.ptype = "PushData" /\ h.up.ok -> AfterPushAck(h)
    [] ~closed /\ h.up.ptype = "TXACK" /\ h.up.ok -> [h EXCEPT !.pc = "txack"]

\* handlePacket: take the read lock, read the packet type and dispatch up to
\* the first blocking statement of the handler
Dispatch(h) ==
  CASE closed -> Finish(h, "")
    [] ~closed /\ h.up.ptype \notin {"PushData", "PullData", "TXACK"} ->
         Finish(h, "unknown packet type")
    [] ~closed /\ h.up.ptype \in {"PushData", "PullData", "TXACK"} /\ ~h.up.ok ->
         Finish(h, "unmarshal error")
    [] ~closed /\ h.up.ptype = "PullData" /\ h.up.ok -> [h EXCEPT !.pc = "set"]
    [] ~closed /\ h.up.ptype = "PushData" /\ h.up.ok -> [h EXCEPT !.pc = "pushAck"]
    [] ~closed /\ h.up.ptype = "TXACK" /\ h.up.ok -> [h EXCEPT !.pc = "txack"]

handlePacket(i) ==
  /\ handlers[i].pc = "rlock"
  /\ CanRLock
  /\ handlers' = [handlers EXCEPT ![i] = Dispatch(handlers[i])]
  /\ UNCHANGED << process, setup, linkVars, bsVars, mqttVars, wg, conn, udpSendChan, reader, closeCall,
                  closed, gateways, configurations, sender, written, sweeper, now,
                  connLoop, discLoop, subscribeCalls, unsubscribeCalls, lifecycle,
                  downlinks, applies, outputFile, lastPull, lastApplied >>

\* a registry entry whose lastSeen is left at the zero time
gatewayEntry_zeroTime(up) ==
  [addr |-> up.addr, lastSeen |-> 0, protocolVersion |-> up.ProtocolVersion]

\* gateway{addr: up.addr, lastSeen: time.Now().UTC(), protocolVersion: ...}
gatewayEntry(up) ==
  [addr |-> up.addr, lastSeen |-> now, protocolVersion |-> up.ProtocolVersion]

\* handlePullData: b.gateways.set(p.GatewayMAC, gateway{...})
handlePullData_set(i) ==
  LET h == handlers[i]
      mac == h.up.GatewayMAC
  IN /\ h.pc = "set"
     /\ gateways' = gatewaysSet(mac, gatewayEntry(h.up))
     /\ lastPull' = [lastPull EXCEPT ![mac] = i]
     /\ handlers' = [handlers EXCEPT ![i].pc =
          IF setEmitsConnect(mac) THEN "connect" ELSE "pullAck"]
     /\ UNCHANGED << process, setup, linkVars, bsVars, mqttVars, wg, conn, udpSendChan, reader, closeCall,
                  closed, configurations, sender, written, sweeper, now, connLoop,
                     discLoop, subscribeCalls, unsubscribeCalls, lifecycle, downlinks,
                     applies, outputFile, lastApplied >>

\* onConnectedLoop, one iteration: break when the id is found in
\* alwaysSubscribe, SubscribeGateway otherwise
onConnected(gatewayID) ==
  IF found(gatewayID) THEN [pc |-> "exited", id |-> gatewayID]
  ELSE [pc |-> "subscribe", id |-> gatewayID]

\* the send on connectChan inside set meets the receive of onConnectedLoop
onConnectedLoop_recv(i) ==
  LET h == handlers[i]
  IN /\ h.pc = "connect"
     /\ connLoop.pc = "recv"
     /\ connLoop' = onConnected(h.up.GatewayMAC)
     /\ handlers' = [handlers EXCEPT ![i].pc = "pullAck"]
     /\ UNCHANGED << process, setup, linkVars, bsVars, mqttVars, wg, conn, udpSendChan, reader, closeCall,
                  closed, gateways, configurations, sender, written, sweeper, now,
                     discLoop, subscribeCalls, unsubscribeCalls, lifecycle, downlinks,
                     applies, outputFile, lastPull, lastApplied >>

\* onConnectedLoop: integration.SubscribeGateway(gatewayID), errors are logged
onConnectedLoop_subscribe ==
  /\ connLoop.pc = "subscribe"
  /\ subscribeCalls' = [subscribeCalls EXCEPT ![connLoop.id] = @ + 1]
  /\ lifecycle' = Append(lifecycle, [op |-> "subscribe", id |-> connLoop.id])
  /\ connLoop' = [connLoop EXCEPT !.pc = "recv"]
  /\ UNCHANGED << process, setup, linkVars, bsVars, mqttVars, wg, conn, udpSendChan, reader, closeCall,
                  closed, handlers, gateways, configurations, sender, written, sweeper,
                  now, discLoop, unsubscribeCalls, downlinks, applies,
                  outputFile, lastPull, lastApplied >>

\* handlePullData: b.udpSendChan <- the PULL_ACK, taken by sendPackets
handlePullData_ack(i) ==
  LET h == handlers[i]
  IN /\ h.pc = "pullAck"
     /\ sender.pc = "recv"
     /\ sender' = [pc |-> "write", p |-> PullACK(i, h.up)]
     /\ handlers' = [handlers EXCEPT ![i] =
          [h EXCEPT !.pc = "notify", !.acks = Append(h.acks, PullACK(i, h.up))]]
     /\ UNCHANGED << process, setup, linkVars, bsVars, mqttVars, wg, conn, udpSendChan, reader, closeCall,
                  closed, gateways, configurations, written, sweeper, now, connLoop,
                     discLoop, subscribeCalls, unsubscribeCalls, lifecycle, downlinks,
                     applies, outputFile, lastPull, lastApplied >>

\* handlePullData: b.notifyMacChan <- GatewayStats{GatewayId}, then return
handlePullData_notify(i) ==
  LET h == handlers[i]
  IN /\ h.pc = "notify"
     /\ handlers' = [handlers EXCEPT ![i] =
          Finish([h EXCEPT !.events = Append(h.events, NotifyMac(h.up))], "")]
     /\ UNCHANGED << process, setup, linkVars, bsVars, mqttVars, wg, conn, udpSendChan, reader, closeCall,
                  closed, gateways, configurations, sender, written, sweeper, now,
                     connLoop, discLoop, subscribeCalls, unsubscribeCalls, lifecycle,
                     downlinks, applies, outputFile, lastPull, lastApplied >>

\* handlePushData: b.udpSendChan <- the PUSH_ACK, taken by sendPackets;
\* the handler goes on to the stats and the uplink frames
handlePushData_ack(i) ==
  LET h == handlers[i]
  IN /\ h.pc = "pushAck"
     /\ sender.pc = "recv"
     /\ sender' = [pc |-> "write", p |-> PushACK(i, h.up)]
     /\ handlers' = [handlers EXCEPT ![i] =
          AfterPushAck([h EXCEPT !.acks = Append(h.acks, PushACK(i, h.up))])]
     /\ UNCHANGED << process, setup, linkVars, bsVars, mqttVars, wg, conn, udpSendChan, reader, closeCall,
                  closed, gateways, configurations, written, sweeper, now, connLoop,
                     discLoop, subscribeCalls, unsubscribeCalls, lifecycle, downlinks,
                     applies, outputFile, lastPull, lastApplied >>

\* handleStats: b.gatewayStatsChan <- stats, taken by forwardGatewayStatsLoop
handleStats(i) ==
  LET h == handlers[i]
  IN /\ h.pc = "stats"
     /\ handlers' = [handlers EXCEPT ![i] =
          AfterStats([h EXCEPT !.events = Append(h.events, GatewayStats(h.up, h.cv))])]
     /\ UNCHANGED << process, setup, linkVars, bsVars, mqttVars, wg, conn, udpSendChan, reader, closeCall,
                  closed, gateways, configurations, sender, written, sweeper, now,
                     connLoop, discLoop, subscribeCalls, unsubscribeCalls, lifecycle,
                     downlinks, applies, outputFile, lastPull, lastApplied >>

\* handleUplinkFrames that walks the frames from the last to the first
nextFrame_lastFirst(h) == h.rem

\* handleUplinkFrames: for i := range uplinkFrames, the index of the frame
\* sent next when h.rem frames are left
nextFrame(h) == h.up.rxpk - h.rem + 1

\* handleUplinkFrames: b.uplinkFrameChan <- uplinkFrames[i], one per step
handleUplinkFrames(i) ==
  LET h == handlers[i]
      e == [h EXCEPT !.events = Append(h.events, UplinkFrame(h.up, nextFrame(h))),
                     !.rem = h.rem - 1]
  IN /\ h.pc = "uplink"
     /\ handlers' = [handlers EXCEPT ![i] =
          IF h.rem = 1 THEN Finish(e, "") ELSE e]
     /\ UNCHANGED << process, setup, linkVars, bsVars, mqttVars, wg, conn, udpSendChan, reader, closeCall,
                  closed, gateways, configurations, sender, written, sweeper, now,
                     connLoop, discLoop, subscribeCalls, unsubscribeCalls, lifecycle,
                     downlinks, applies, outputFile, lastPull, lastApplied >>

\* handleTXACK: b.downlinkTXAckChan <- gw.DownlinkTXAck, then return
handleTXACK(i) ==
  LET h == handlers[i]
  IN /\ h.pc = "txack"
     /\ handlers' = [handlers EXCEPT ![i] =
          Finish([h EXCEPT !.events = Append(h.events, DownlinkTXAck(h.up))], "")]
     /\ UNCHANGED << process, setup, linkVars, bsVars, mqttVars, wg, conn, udpSendChan, reader, closeCall,
                  closed, gateways, configurations, sender, written, sweeper, now,
                     connLoop, discLoop, subscribeCalls, unsubscribeCalls, lifecycle,
                     downlinks, applies, outputFile, lastPull, lastApplied >>

\* sendPackets: conn.WriteToUDP(p.data, p.addr); a write error is logged
sendPackets ==
  /\ sender.pc = "write"
  /\ \E wrote \in BOOLEAN :
       written' = IF wrote THEN written (+) SetToBag({sender.p}) ELSE written
  /\ sender' = [pc |-> "recv", p |-> << >>]
  /\ UNCHANGED << process, setup, linkVars, bsVars, mqttVars, wg, conn, udpSendChan, reader, closeCall,
                  closed, handlers, gateways, configurations, sweeper, now, connLoop,
                  discLoop, subscribeCalls, unsubscribeCalls, lifecycle, downlinks,
                  applies, outputFile, lastPull, lastApplied >>

(* ------------------------- registry sweeper ---------------------------- *)
\* gateways.cleanup, run by the sweeper goroutine of NewBackend: the stale
\* entries are removed and their ids are queued for disconnectChan
cleanup ==
  /\ sweeper.pending = {}
  /\ now >= sweeper.nextRun
  /\ gateways' = [id \in (DOMAIN gateways) \ stale |-> gateways[id]]
  /\ sweeper' = [nextRun |-> IF stale = {} THEN now + SweepInterval
                             ELSE sweeper.nextRun,
                 pending |-> stale]
  /\ UNCHANGED << process, setup, linkVars, bsVars, mqttVars, wg, conn, udpSendChan, reader, closeCall,
                  closed, handlers, configurations, sender, written, now, connLoop,
                  discLoop, subscribeCalls, unsubscribeCalls, lifecycle, downlinks,
                  applies, outputFile, lastPull, lastApplied >>

\* onDisconnectedLoop without the scan of alwaysSubscribe
onDisconnected_noScan(gatewayID) == [pc |-> "unsubscribe", id |-> gatewayID]

\* onDisconnectedLoop, one iteration: break when the id is found in
\* alwaysSubscribe, UnsubscribeGateway otherwise
onDisconnected(gatewayID) ==
  IF found(gatewayID) THEN [pc |-> "exited", id |-> gatewayID]
  ELSE [pc |-> "unsubscribe", id |-> gatewayID]

\* the send on disconnectChan meets the receive of onDisconnectedLoop; after
\* the last one the sweeper sleeps for SweepInterval
onDisconnectedLoop_recv ==
  /\ discLoop.pc = "recv"
  /\ \E id \in sweeper.pending :
       /\ discLoop' = onDisconnected(id)
       /\ sweeper' = [nextRun |-> IF sweeper.pending = {id}
                                  THEN now + SweepInterval ELSE sweeper.nextRun,
                      pending |-> sweeper.pending \ {id}]
  /\ UNCHANGED << process, setup, linkVars, bsVars, mqttVars, wg, conn, udpSendChan, reader, closeCall,
                  closed, handlers, gateways, configurations, sender, written, now,
                  connLoop, subscribeCalls, unsubscribeCalls, lifecycle, downlinks,
                  applies, outputFile, lastPull, lastApplied >>

\* onDisconnectedLoop: integration.UnsubscribeGateway(gatewayID)
onDisconnectedLoop_unsubscribe ==
  /\ discLoop.pc = "unsubscribe"
  /\ unsubscribeCalls' = [unsubscribeCalls EXCEPT ![discLoop.id] = @ + 1]
  /\ lifecycle' = Append(lifecycle, [op |-> "unsubscribe", id |-> discLoop.id])
  /\ discLoop' = [discLoop EXCEPT !.pc = "recv"]
  /\ UNCHANGED << process, setup, linkVars, bsVars, mqttVars, wg, conn, udpSendChan, reader, closeCall,
                  closed, handlers, gateways, configurations, sender, written, sweeper,
                  now, connLoop, subscribeCalls, downlinks, applies,
                  outputFile, lastPull, lastApplied >>

\* time passes
Tick ==
  /\ now + TickStep <= MaxTime
  /\ now' = now + TickStep
  /\ UNCHANGED << process, setup, linkVars, bsVars, mqttVars, wg, conn, udpSendChan, reader, closeCall,
                  closed, handlers, gateways, configurations, sender, written, sweeper,
                  connLoop, discLoop, subscribeCalls, unsubscribeCalls, lifecycle,
                  downlinks, applies, outputFile, lastPull, lastApplied >>

(* -------------------------- SendDownlinkFrame -------------------------- *)
\* PullResp that takes the high half of frame.Token
PullResp_highHalf(j, gw, frame) ==
  udpPacket(<<"d", j>>, gw.addr, "PullResp", gw.protocolVersion,
            (frame.Token \div TokenMod) % TokenMod)

\* packets.GetPullRespPacket(gw.protocolVersion, uint16(frame.Token), frame),
\* addressed to gw.addr
PullResp(j, gw, frame) ==
  udpPacket(<<"d", j>>, gw.addr, "PullResp", gw.protocolVersion,
            frame.Token % TokenMod)

\* SendDownlinkFrame that ignores the error of gateways.get and goes on with
\* the zero gateway
downlinkCall_ignoreGetError(j, frame) ==
  LET call == [frame |-> frame, pc |-> "done", p |-> << >>, sent |-> << >>,
               err |-> "", reg |-> "", pull |-> 0]
      gw == IF gatewaysHas(frame.GatewayId) THEN gateways[frame.GatewayId]
            ELSE [addr |-> "", lastSeen |-> 0, protocolVersion |-> 0]
  IN IF ~frame.encodable THEN [call EXCEPT !.err = "get PullRespPacket error"]
     ELSE [call EXCEPT !.pc = "send", !.p = PullResp(j, gw, frame)]

\* SendDownlinkFrame up to its send on udpSendChan: the registry lookup
\* (gateways.get) and the encoding of the PULL_RESP
downlinkCall(j, frame) ==
  LET call == [frame |-> frame, pc |-> "done", p |-> << >>, sent |-> << >>,
               err |-> "", reg |-> "", pull |-> 0]
  IN CASE ~gatewaysHas(frame.GatewayId) ->
            [call EXCEPT !.err = "gateway does not exist"]
       [] gatewaysHas(frame.GatewayId) /\ ~frame.encodable ->
            [call EXCEPT !.err = "get PullRespPacket error"]
       [] OTHER ->
            [call EXCEPT !.pc = "send",
                         !.p = PullResp(j, gateways[frame.GatewayId], frame)]

\* the calls after one more SendDownlinkFrame call; reg and pull are
\* history: what the registry held for the id at the lookup
downlinksAfter(frame) ==
  LET id == frame.GatewayId
      j == Len(downlinks) + 1
  IN Append(downlinks,
       [downlinkCall(j, frame) EXCEPT
          !.reg = IF id \in DOMAIN gateways THEN "present"
                  ELSE IF lastPull[id] = 0 THEN "never" ELSE "evicted",
          !.pull = lastPull[id]])

SendDownlinkFrame(frames) ==
  /\ Len(downlinks) < MaxDownlinks
  /\ \E frame \in frames : downlinks' = downlinksAfter(frame)
  /\ UNCHANGED << process, setup, linkVars, bsVars, mqttVars, wg, conn, udpSendChan, reader, closeCall,
                  closed, handlers, gateways, configurations, sender, written, sweeper,
                  now, connLoop, discLoop, subscribeCalls, unsubscribeCalls, lifecycle,
                  applies, outputFile, lastPull, lastApplied >>

\* SendDownlinkFrame: b.udpSendChan <- the PULL_RESP, taken by sendPackets
SendDownlinkFrame_send(j) ==
  LET d == downlinks[j]
  IN /\ d.pc = "send"
     /\ udpSendChan = "open"
     /\ sender.pc = "recv"
     /\ sender' = [pc |-> "write", p |-> d.p]
     /\ downlinks' = [downlinks EXCEPT ![j] =
          [d EXCEPT !.pc = "done", !.sent = Append(d.sent, d.p)]]
     /\ UNCHANGED << process, setup, linkVars, bsVars, mqttVars, wg, conn, udpSendChan, reader, closeCall,
                  closed, handlers, gateways, configurations, written, sweeper, now,
                     connLoop, discLoop, subscribeCalls, unsubscribeCalls, lifecycle,
                     applies, outputFile, lastPull, lastApplied >>

\* SendDownlinkFrame: b.udpSendChan <- the PULL_RESP on the channel Close
\* has closed: the send panics
SendDownlinkFrame_panic(j) ==
  LET d == downlinks[j]
  IN /\ d.pc = "send"
     /\ udpSendChan = "closed"
     /\ downlinks' = [downlinks EXCEPT ![j].pc = "panic"]
     /\ UNCHANGED << process, setup, linkVars, bsVars, mqttVars, wg, conn,
                     udpSendChan, reader, closeCall, closed, handlers, gateways,
                     configurations, sender, written, sweeper, now, connLoop,
                     discLoop, subscribeCalls, unsubscribeCalls, lifecycle, applies,
                     outputFile, lastPull, lastApplied >>

\* forwardDownlinkFrameLoop: a frame is received from the integration's
\* downlink channel and a goroutine is started for it
forwardDownlinkFrameLoop(frames) ==
  /\ Len(taken) < MaxTaken
  /\ \E frame \in frames :
       taken' = Append(taken, [frame |-> frame, calls |-> << >>])
  /\ UNCHANGED << process, setup, linkVars, bsVars, udpVars, mqttConn, mqttGateways, brokerSubs,
                  mqttCalls, onConns, lostHandler, losses, lastOk, commands,
                  templates, publishes, forwarded >>

\* a goroutine that calls SendDownlinkFrame once more after an error
mayCall_retryOnce(t) ==
  \/ t.calls = << >>
  \/ Len(t.calls) = 1 /\ downlinks[t.calls[1]].err # ""

\* the goroutine of a frame calls SendDownlinkFrame once and logs its error
mayCall(t) == t.calls = << >>

\* the goroutine forwardDownlinkFrameLoop started for frame k:
\* backend.GetBackend().SendDownlinkFrame(downlinkFrame)
forwardDownlinkFrame(k) ==
  /\ mayCall(taken[k])
  /\ downlinks' = downlinksAfter(taken[k].frame)
  /\ taken' = [taken EXCEPT ![k].calls = Append(@, Len(downlinks) + 1)]
  /\ UNCHANGED << process, setup, linkVars, bsVars, mqttConn, mqttGateways, brokerSubs,
                  mqttCalls, onConns, lostHandler, losses, lastOk, commands,
                  templates, publishes, forwarded, wg, conn, udpSendChan,
                  reader, closeCall, closed, handlers, gateways, configurations,
                  sender, written, sweeper, now, connLoop, discLoop,
                  subscribeCalls, unsubscribeCalls, lifecycle, applies, outputFile,
                  lastPull, lastApplied >>

(* ------------------------- ApplyConfiguration -------------------------- *)
\* ApplyConfiguration is called, by the goroutine forwardGatewayConfigurationLoop
\* starts per configuration, and waits in b.Lock(); at most max calls in a run
ApplyConfiguration_calls(max) ==
  /\ Len(applies) < max
  /\ \E id \in GatewayIDs, v \in ConfigVersions :
       applies' = Append(applies,
         [config |-> [GatewayId |-> id, Version |-> v], pc |-> "lock1",
          err |-> "", failed |-> ""])
  /\ UNCHANGED << process, setup, linkVars, bsVars, mqttVars, wg, conn, udpSendChan, reader, closeCall,
                  closed, handlers, gateways, configurations, sender, written, sweeper,
                  now, connLoop, discLoop, subscribeCalls, unsubscribeCalls, lifecycle,
                  downlinks, outputFile, lastPull, lastApplied >>

ApplyConfiguration_call == ApplyConfiguration_calls(MaxApplies)

\* the scan for the configuration of the gateway id
hasConfiguration(gatewayID) ==
  \E k \in DOMAIN configurations : configurations[k].gatewayID = gatewayID

\* ApplyConfiguration: under the lock, look the pfConfiguration up
ApplyConfiguration(j) ==
  LET a == applies[j]
  IN /\ a.pc = "lock1"
     /\ CanLock
     /\ applies' = [applies EXCEPT ![j] =
          IF hasConfiguration(a.config.GatewayId)
          THEN [a EXCEPT !.pc = "prepare"]
          ELSE [a EXCEPT !.pc = "done", !.err = "gateway does not exist",
                         !.failed = "gateway does not exist"]]
     /\ UNCHANGED << process, setup, linkVars, bsVars, mqttVars, wg, conn, udpSendChan, reader, closeCall,
                  closed, handlers, gateways, configurations, sender, written,
                     sweeper, now, connLoop, discLoop, subscribeCalls,
                     unsubscribeCalls, lifecycle, downlinks, outputFile, lastPull,
                     lastApplied >>

\* applyConfiguration that goes on after a failed step
afterStep_ignoreError(a, e, next) == [a EXCEPT !.pc = next]

\* applyConfiguration, after each step: return the wrapped error, or go on;
\* failed is history: the error the step met
afterStep(a, e, next) ==
  IF e = "" THEN [a EXCEPT !.pc = next]
  ELSE [a EXCEPT !.pc = "done", !.err = e]

\* applyConfiguration: getGatewayConfig, loadConfigFile, mergeConfig
applyConfiguration_prepare(j) ==
  LET a == applies[j]
  IN /\ a.pc = "prepare"
     /\ \E e \in {"", "get gateway config error", "load config file error",
                  "merge config error"} :
          applies' = [applies EXCEPT ![j] =
            [afterStep(a, e, "write") EXCEPT !.failed = e]]
     /\ UNCHANGED << process, setup, linkVars, bsVars, mqttVars, wg, conn, udpSendChan, reader, closeCall,
                  closed, handlers, gateways, configurations, sender, written,
                     sweeper, now, connLoop, discLoop, subscribeCalls,
                     unsubscribeCalls, lifecycle, downlinks, outputFile, lastPull,
                     lastApplied >>

\* applyConfiguration: ioutil.WriteFile(pfConfig.outputFile, bb, 0644)
applyConfiguration_write(j) ==
  LET a == applies[j]
  IN /\ a.pc = "write"
     /\ \/ /\ outputFile' = [outputFile EXCEPT ![a.config.GatewayId] = a.config.Version]
           /\ applies' = [applies EXCEPT ![j] = afterStep(a, "", "restart")]
        \/ /\ outputFile' = outputFile
           /\ applies' = [applies EXCEPT ![j] =
                [afterStep(a, "write config file error", "restart")
                   EXCEPT !.failed = "write config file error"]]
     /\ UNCHANGED << process, setup, linkVars, bsVars, mqttVars, wg, conn, udpSendChan, reader, closeCall,
                  closed, handlers, gateways, configurations, sender, written,
                     sweeper, now, connLoop, discLoop, subscribeCalls,
                     unsubscribeCalls, lifecycle, downlinks, lastPull, lastApplied >>

\* applyConfiguration: invokePFRestart(pfConfig.restartCommand), then b.Lock()
applyConfiguration_restart(j) ==
  LET a == applies[j]
  IN /\ a.pc = "restart"
     /\ \E e \in {"", "invoke packet-forwarder restart error"} :
          applies' = [applies EXCEPT ![j] =
            [afterStep(a, e, "lock2") EXCEPT !.failed = e]]
     /\ UNCHANGED << process, setup, linkVars, bsVars, mqttVars, wg, conn, udpSendChan, reader, closeCall,
                  closed, handlers, gateways, configurations, sender, written,
                     sweeper, now, connLoop, discLoop, subscribeCalls,
                     unsubscribeCalls, lifecycle, downlinks, outputFile, lastPull,
                     lastApplied >>

\* the loop that stores config.Version in the configurations of the id
setCurrentVersion(gatewayID, version) ==
  [k \in DOMAIN configurations |->
     IF configurations[k].gatewayID = gatewayID
     THEN [configurations[k] EXCEPT !.currentVersion = version]
     ELSE configurations[k]]

\* applyConfiguration: under the lock, store the version and return nil
applyConfiguration_commit(j) ==
  LET a == applies[j]
  IN /\ a.pc = "lock2"
     /\ CanLock
     /\ configurations' = setCurrentVersion(a.config.GatewayId, a.config.Version)
     /\ lastApplied' = [lastApplied EXCEPT ![a.config.GatewayId] = a.config.Version]
     /\ applies' = [applies EXCEPT ![j].pc = "done"]
     /\ UNCHANGED << process, setup, linkVars, bsVars, mqttVars, wg, conn, udpSendChan, reader, closeCall,
                  closed, handlers, gateways, sender, written, sweeper, now,
                     connLoop, discLoop, subscribeCalls, unsubscribeCalls, lifecycle,
                     downlinks, outputFile, lastPull >>

(* ----------------------- I/O goroutines and Close ----------------------- *)
\* the reader goroutine of NewBackend begins: b.wg.Add(1), then readPackets
reader_start ==
  /\ reader = "start"
  /\ reader' = "read"
  /\ wg' = wg + 1
  /\ UNCHANGED << process, setup, linkVars, bsVars, mqttVars, handlers, gateways, configurations, closed, sender,
                  written, sweeper, now, connLoop, discLoop, subscribeCalls,
                  unsubscribeCalls, lifecycle, downlinks, applies, outputFile, lastPull,
                  lastApplied, conn, udpSendChan, closeCall >>

\* the writer goroutine of NewBackend begins: b.wg.Add(1), then sendPackets
writer_start ==
  /\ sender.pc = "start"
  /\ sender' = [sender EXCEPT !.pc = "recv"]
  /\ wg' = wg + 1
  /\ UNCHANGED << process, setup, linkVars, bsVars, mqttVars, handlers, gateways, configurations, closed, written,
                  sweeper, now, connLoop, discLoop, subscribeCalls,
                  unsubscribeCalls, lifecycle, downlinks, applies, outputFile, lastPull,
                  lastApplied, conn, udpSendChan, reader, closeCall >>

\* readPackets: ReadFromUDP fails on the closed socket, isClosed() is true
\* and readPackets returns; the goroutine ends with b.wg.Done()
reader_exit ==
  /\ reader = "read"
  /\ conn = "closed"
  /\ CanRLock
  /\ closed
  /\ reader' = "exited"
  /\ wg' = wg - 1
  /\ UNCHANGED << process, setup, linkVars, bsVars, mqttVars, handlers, gateways, configurations, closed, sender,
                  written, sweeper, now, connLoop, discLoop, subscribeCalls,
                  unsubscribeCalls, lifecycle, downlinks, applies, outputFile, lastPull,
                  lastApplied, conn, udpSendChan, closeCall >>

\* sendPackets: the range over the closed udpSendChan ends; the goroutine
\* reads isClosed() and ends with b.wg.Done()
writer_exit ==
  /\ sender.pc = "recv"
  /\ udpSendChan = "closed"
  /\ CanRLock
  /\ sender' = [sender EXCEPT !.pc = "exited"]
  /\ wg' = wg - 1
  /\ UNCHANGED << process, setup, linkVars, bsVars, mqttVars, handlers, gateways, configurations, closed, written,
                  sweeper, now, connLoop, discLoop, subscribeCalls,
                  unsubscribeCalls, lifecycle, downlinks, applies, outputFile, lastPull,
                  lastApplied, conn, udpSendChan, reader, closeCall >>

\* Close is called and waits in b.Lock()
Close_call ==
  /\ closeCall.pc = "idle"
  /\ closeCall' = [closeCall EXCEPT !.pc = "lock"]
  /\ UNCHANGED << process, setup, linkVars, bsVars, mqttVars, handlers, gateways, configurations, closed, sender,
                  written, sweeper, now, connLoop, discLoop, subscribeCalls,
                  unsubscribeCalls, lifecycle, downlinks, applies, outputFile, lastPull,
                  lastApplied, wg, conn, udpSendChan, reader >>

\* Close under the lock: closed = true, conn.Close() - whose error is
\* returned with the lock still held -, close(b.udpSendChan), b.Unlock()
Close_locked ==
  /\ closeCall.pc = "lock"
  /\ CanLock
  /\ closed' = TRUE
  /\ \/ /\ conn' = "closed"
        /\ udpSendChan' = "closed"
        /\ closeCall' = [pc |-> "wait", err |-> ""]
     \/ /\ UNCHANGED << process, setup, linkVars, bsVars, mqttVars, conn, udpSendChan >>
        /\ closeCall' = [pc |-> "returned", err |-> "close udp listener error"]
  /\ UNCHANGED << process, setup, linkVars, bsVars, mqttVars, handlers, gateways, configurations, sender, written,
                  sweeper, now, connLoop, discLoop, subscribeCalls,
                  unsubscribeCalls, lifecycle, downlinks, applies, outputFile, lastPull,
                  lastApplied, wg, reader >>

\* Close: b.wg.Wait() returns when the counter is zero, then return nil
Close_wait ==
  /\ closeCall.pc = "wait"
  /\ wg = 0
  /\ closeCall' = [closeCall EXCEPT !.pc = "returned"]
  /\ UNCHANGED << process, setup, linkVars, bsVars, mqttVars, handlers, gateways, configurations, closed, sender,
                  written, sweeper, now, connLoop, discLoop, subscribeCalls,
                  unsubscribeCalls, lifecycle, downlinks, applies, outputFile, lastPull,
                  lastApplied, wg, conn, udpSendChan, reader >>

(* ------------------------- Basic Station backend ----------------------- *)
\* the registry of the Basic Station backend: get finds an entry, set puts
\* the entry under the id, remove deletes it.  An entry is the gateway
\* struct: the connection and the configuration version.
bsGet(id) == bsGateways[id].conn # NoConn
bsSet(id, g) == [bsGateways EXCEPT ![id] = g]
bsRemove(id) == [bsGateways EXCEPT ![id] = [conn |-> NoConn, configVersion |-> NoVersion]]

\* set emits a connect event for an id that had no entry, remove a
\* disconnect event for an id that had one
bsSetEmitsConnect(id) == ~bsGet(id)
bsRemoveEmitsDisconnect(id) == bsGet(id)

\* gateway{conn: c}: the configVersion field is left at its zero value
gatewayOf(c) == [conn |-> c, configVersion |-> NoVersion]

\* a gateway opens /gateway/{id}: the server runs websocketWrap in a
\* goroutine of its own, which starts the ping goroutine of the connection
\* and runs handleGateway; the id parses
handleGateway(max) ==
  /\ Len(bsConns) < max
  /\ \E id \in GatewayIDs :
       bsConns' = Append(bsConns,
         [id |-> id, pc |-> "get", connects |-> 0, disconnects |-> 0,
          removed |-> FALSE])
  /\ pings' = Append(pings, [pc |-> "select"])
  /\ UNCHANGED << process, setup, linkVars, udpVars, mqttVars, bsSends,
                  bsGateways, bsApplies, bsStats >>

\* handleGateway: b.gateways.get; an existing entry ends the handler
handleGateway_get(c) ==
  /\ bsConns[c].pc = "get"
  /\ bsConns' = [bsConns EXCEPT ![c].pc =
                   IF bsGet(bsConns[c].id) THEN "rejected" ELSE "set"]
  /\ UNCHANGED << process, setup, linkVars, udpVars, mqttVars, wsVars, bsGateways, bsApplies, bsStats >>

\* handleGateway: b.gateways.set(gatewayID, gateway{conn: c}), then the
\* receive loop is entered
handleGateway_set(c) ==
  /\ bsConns[c].pc = "set"
  /\ bsGateways' = bsSet(bsConns[c].id, gatewayOf(c))
  /\ bsConns' = [bsConns EXCEPT
       ![c].pc = "loop",
       ![c].connects = IF bsSetEmitsConnect(bsConns[c].id) THEN @ + 1 ELSE @]
  /\ UNCHANGED << process, setup, linkVars, udpVars, mqttVars, wsVars, bsApplies, bsStats >>

\* handleGateway: c.ReadMessage fails, the loop returns and the deferred
\* b.gateways.remove(gatewayID) runs
handleGateway_return(c) ==
  /\ bsConns[c].pc = "loop"
  /\ bsGateways' = bsRemove(bsConns[c].id)
  /\ bsConns' = [bsConns EXCEPT
       ![c].pc = "returned",
       ![c].removed = bsGet(bsConns[c].id),
       ![c].disconnects =
          IF bsRemoveEmitsDisconnect(bsConns[c].id) THEN @ + 1 ELSE @]
  /\ UNCHANGED << process, setup, linkVars, udpVars, mqttVars, wsVars, bsApplies, bsStats >>

\* the version of the last ApplyConfiguration for id that returned nil
RECURSIVE bsLastApplied(_, _)
bsLastApplied(log, id) ==
  IF log = << >> THEN NoVersion
  ELSE LET last == log[Len(log)]
       IN IF last.id = id /\ last.err = "" THEN last.version
          ELSE bsLastApplied(SubSeq(log, 1, Len(log) - 1), id)

\* ApplyConfiguration of the Basic Station backend: GetRouterConfig, then
\* sendToGateway (b.gateways.get and conn.WriteJSON); the registry is not
\* written
bsApplyConfiguration ==
  /\ Len(bsApplies) < MaxApplies
  /\ \E id \in GatewayIDs, version \in ConfigVersions,
        rcOk \in BOOLEAN, writeOk \in BOOLEAN :
       LET err == IF ~rcOk THEN "get router config error"
                  ELSE IF ~bsGet(id) THEN "get gateway error"
                  ELSE IF ~writeOk THEN "send message to gateway error"
                  ELSE ""
       IN bsApplies' = Append(bsApplies,
            [id |-> id, version |-> version, err |-> err])
  /\ UNCHANGED << process, setup, linkVars, udpVars, mqttVars, wsVars, bsGateways, bsConns, bsStats >>

\* the receive loop of connection c reads a version message: handleVersion
\* gets the entry and sends a GatewayStats on the stats channel, where
\* forwardGatewayStatsLoop takes it
handleVersion(c) ==
  /\ bsConns[c].pc = "loop"
  /\ Len(bsStats) < MaxVersions
  /\ bsStats' =
       IF bsGet(bsConns[c].id)
       THEN Append(bsStats,
              [id |-> bsConns[c].id,
               ConfigVersion |-> bsGateways[bsConns[c].id].configVersion,
               applied |-> bsLastApplied(bsApplies, bsConns[c].id)])
       ELSE bsStats
  /\ UNCHANGED << process, setup, linkVars, udpVars, mqttVars, wsVars, bsGateways, bsConns, bsApplies >>

\* websocketWrap has returned for connection c: handleGateway returned, the
\* deferred ticker.Stop() and conn.Close() have run
wrapReturned(c) == bsConns[c].pc \in {"rejected", "returned"}

\* the ping goroutine of connection c, case <-ticker.C: it goes on to
\* conn.WriteMessage(websocket.PingMessage, nil); a stopped ticker never
\* fires, and the select has no other case
ping_tick(c) ==
  /\ pings[c].pc = "select"
  /\ ~wrapReturned(c)
  /\ pings' = [pings EXCEPT ![c].pc = "write"]
  /\ UNCHANGED << process, setup, linkVars, udpVars, mqttVars, bsSends,
                  bsGateways, bsConns, bsApplies, bsStats >>

\* the ping goroutine: WriteMessage returns, an error is logged and the
\* connection is closed; the for loop goes back to the select
ping_write(c) ==
  /\ pings[c].pc = "write"
  /\ pings' = [pings EXCEPT ![c].pc = "select"]
  /\ UNCHANGED << process, setup, linkVars, udpVars, mqttVars, bsSends,
                  bsGateways, bsConns, bsApplies, bsStats >>

\* SendDownlinkFrame ("dnmsg") or ApplyConfiguration ("router_config") in a
\* goroutine of the forwarder reaches sendToGateway: b.gateways.get, then
\* gw.conn.WriteJSON(v) begins
sendToGateway ==
  /\ Len(bsSends) < MaxSends
  /\ \E kind \in {"dnmsg", "router_config"}, id \in GatewayIDs :
       bsSends' = Append(bsSends,
         IF bsGet(id)
         THEN [kind |-> kind, id |-> id, conn |-> bsGateways[id].conn,
               pc |-> "write", err |-> ""]
         ELSE [kind |-> kind, id |-> id, conn |-> NoConn,
               pc |-> "done", err |-> "get gateway error"])
  /\ UNCHANGED << process, setup, linkVars, udpVars, mqttVars, pings,
                  bsGateways, bsConns, bsApplies, bsStats >>

\* sendToGateway: WriteJSON returns
sendToGateway_write(k) ==
  /\ bsSends[k].pc = "write"
  /\ \E ok \in BOOLEAN :
       bsSends' = [bsSends EXCEPT
         ![k].pc = "done",
         ![k].err = IF ok THEN "" ELSE "send message to gateway error"]
  /\ UNCHANGED << process, setup, linkVars, udpVars, mqttVars, pings,
                  bsGateways, bsConns, bsApplies, bsStats >>

(* --------------------------- forwarder Setup --------------------------- *)
\* the gateway_id texts of a configuration: two ids and one that is not hex
IDTexts == { "0000000000000001", "0000000000000002", "zz" }

\* lorawan.EUI64.UnmarshalText: the id of a text, or an error
UnmarshalText(t) ==
  CASE t = "0000000000000001" -> [id |-> 1, err |-> ""]
    [] t = "0000000000000002" -> [id |-> 2, err |-> ""]
    [] OTHER -> [id |-> 0, err |-> "unmarshal gateway_id error"]

\* conf.Backend.SemtechUDP.Configuration: sequences of entries
SetupConfs ==
  UNION { [1..n -> IDTexts] : n \in 0..MaxConfigured }

\* the goroutines Setup starts, in the order of its go statements
Loops ==
  << "onConnectedLoop", "onDisconnectedLoop", "forwardUplinkFrameLoop",
     "forwardGatewayStatsLoop", "forwardGatewayNotifyMacLoop",
     "forwardDownlinkTxAckLoop", "forwardDownlinkFrameLoop",
     "forwardGatewayConfigurationLoop" >>

\* Setup is called: b and i say whether the backend and the integration are
\* set; a nil one makes it return at once
Setup ==
  /\ setup.pc = "new"
  /\ \E b \in BOOLEAN, i \in BOOLEAN, conf \in SetupConfs :
       setup' = [setup EXCEPT
         !.b = b, !.i = i, !.conf = conf,
         !.pc = IF b /\ i THEN "range" ELSE "returned",
         !.err = IF ~b THEN "backend is not set"
                 ELSE IF ~i THEN "integration is not set" ELSE ""]
  /\ UNCHANGED << process, linkVars, udpVars, mqttVars, bsVars >>

\* a Setup that only logs the error of a subscribe
Setup_afterSubscribe_logOnly(ok) == [pc |-> "range", err |-> ""]

\* a failed subscribe makes Setup return the wrapped error
Setup_afterSubscribe(ok) ==
  IF ok THEN [pc |-> "range", err |-> ""]
  ELSE [pc |-> "returned", err |-> "subscribe gateway error"]

\* one iteration of the range over the configuration: UnmarshalText, then
\* i.SubscribeGateway, which succeeds or fails
Setup_subscribe ==
  /\ setup.pc = "range"
  /\ setup.n <= Len(setup.conf)
  /\ LET u == UnmarshalText(setup.conf[setup.n])
     IN IF u.err # ""
        THEN setup' = [setup EXCEPT !.pc = "returned", !.err = u.err]
        ELSE \E ok \in BOOLEAN :
               setup' = [setup EXCEPT
                 !.subs = Append(@, [id |-> u.id, ok |-> ok]),
                 !.n = @ + 1,
                 !.pc = Setup_afterSubscribe(ok).pc,
                 !.err = Setup_afterSubscribe(ok).err]
  /\ UNCHANGED << process, linkVars, udpVars, mqttVars, bsVars >>

\* the go statements after the range, one per step, then return nil
Setup_go ==
  /\ setup.pc = "range"
  /\ setup.n > Len(setup.conf)
  /\ LET l == Len(setup.loops) + 1
     IN setup' = [setup EXCEPT
          !.loops = Append(@, Loops[l]),
          !.pc = IF l = Len(Loops) THEN "returned" ELSE "range"]
  /\ UNCHANGED << process, linkVars, udpVars, mqttVars, bsVars >>

(* ------------------------------ run command ---------------------------- *)
Signals == { "SIGINT", "SIGTERM" }

\* run: <-sigChan, after signal.Notify(sigChan, os.Interrupt, syscall.SIGTERM)
run_signal ==
  /\ process.pc = "wait"
  /\ \E sig \in Signals :
       process' = [process EXCEPT !.pc = "signalled", !.sig = sig]
  /\ UNCHANGED << setup, linkVars, udpVars, mqttVars, bsVars >>

\* run: logs "shutting down server" and returns nil; the command returns
\* and the process exits with all its goroutines
run_return ==
  /\ process.pc = "signalled"
  /\ process' = [process EXCEPT !.pc = "exited"]
  /\ UNCHANGED << setup, linkVars, udpVars, mqttVars, bsVars >>

\* goroutines run only while the process does
processRuns == process.pc # "exited"

(* ---------------------------- specifications --------------------------- *)
\* the per-packet dispatch and the writer goroutine are part of every run
Common ==
  \/ \E i \in DOMAIN handlers : handlePacket(i)
  \/ sendPackets

\* handlePushData
Push ==
  \E i \in DOMAIN handlers :
    \/ handlePushData_ack(i)
    \/ handleStats(i)
    \/ handleUplinkFrames(i)

\* handlePullData and the forwarder's connect loop
Registration ==
  \/ \E i \in DOMAIN handlers :
       \/ handlePullData_set(i)
       \/ onConnectedLoop_recv(i)
       \/ handlePullData_ack(i)
       \/ handlePullData_notify(i)
  \/ onConnectedLoop_subscribe

\* the registry sweeper, the clock and the forwarder's disconnect loop
Sweeping ==
  \/ cleanup
  \/ onDisconnectedLoop_recv
  \/ onDisconnectedLoop_unsubscribe
  \/ Tick

\* SendDownlinkFrame calls
Downlink(frames) ==
  \/ SendDownlinkFrame(frames)
  \/ \E j \in DOMAIN downlinks : SendDownlinkFrame_send(j)

\* PUSH_DATA traffic of all gateways
NextPush ==
  \/ Common
  \/ readPackets(PushInputs, MaxPackets)
  \/ Push

SpecPush == Init /\ [][NextPush]_vars

\* PUSH_DATA with several rxpk records
NextOrder ==
  \/ Common
  \/ readPackets(OrderInputs, MaxPackets)
  \/ Push

SpecOrder == Init /\ [][NextOrder]_vars

\* packets of every type, and the forwarder's goroutines that publish their
\* events
NextForward ==
  \/ Common
  \/ readPackets(ForwardInputs, MaxPackets)
  \/ Registration
  \/ Push
  \/ \E i \in DOMAIN handlers : handleTXACK(i)
  \/ forwardPublish

SpecForward == Init /\ [][NextForward]_vars

\* downlink frames from the integration's channel while a gateway registers
NextForwardDown ==
  \/ Common
  \/ readPackets(PullInputs22, MaxPulls)
  \/ Registration
  \/ forwardDownlinkFrameLoop(ForwardFrames)
  \/ \E k \in DOMAIN taken : forwardDownlinkFrame(k)
  \/ \E j \in DOMAIN downlinks : SendDownlinkFrame_send(j)

SpecForwardDown == Init /\ [][NextForwardDown]_vars

\* Close next to PULL_DATA traffic and to downlink frames of the forwarder
NextCloseDown ==
  \/ Common
  \/ readPackets(PullInputs22, MaxPulls)
  \/ Registration
  \/ Downlink(DownlinkFramesOK)
  \/ \E j \in DOMAIN downlinks : SendDownlinkFrame_panic(j)
  \/ reader_exit
  \/ writer_exit
  \/ Close_call
  \/ Close_locked
  \/ Close_wait

SpecCloseDown == Init /\ [][NextCloseDown]_vars

\* PULL_DATA of every gateway while configurations are applied; every
\* goroutine that can take a step eventually takes one
NextLive ==
  \/ Common
  \/ readPackets(PullInputs, MaxPackets)
  \/ Registration
  \/ ApplyConfiguration_call
  \/ \E j \in DOMAIN applies :
       \/ ApplyConfiguration(j)
       \/ applyConfiguration_prepare(j)
       \/ applyConfiguration_write(j)
       \/ applyConfiguration_restart(j)
       \/ applyConfiguration_commit(j)

SpecLive == Init /\ [][NextLive]_vars /\ WF_vars(NextLive)

\* a gateway that registers, is evicted and registers again
NextRejoin ==
  \/ Common
  \/ readPackets(PullInputs22, MaxPackets)
  \/ Registration
  \/ Sweeping

SpecRejoin == Init /\ [][NextRejoin]_vars

\* ApplyConfiguration calls that overlap
NextOverlap ==
  \/ ApplyConfiguration_calls(MaxOverlap)
  \/ \E j \in DOMAIN applies :
       \/ ApplyConfiguration(j)
       \/ applyConfiguration_prepare(j)
       \/ applyConfiguration_write(j)
       \/ applyConfiguration_restart(j)
       \/ applyConfiguration_commit(j)

SpecOverlap == Init /\ [][NextOverlap]_vars

\* the broker connection: first connect, losses, periodic reconnect, Close
NextLink ==
  \/ mqttAuthInit
  \/ \E l \in DOMAIN connectLoops : connect(l)
  \/ mqttNewBackend_return
  \/ onConnectionLost_connectLoop
  \/ reconnectLoop_check
  \/ reconnectLoop_disconnect
  \/ reconnectLoop_connected
  \/ mqttClose_flag
  \/ mqttClose_disconnect

SpecLink == Init /\ [][NextLink]_vars

\* forwarder.Setup over every configuration
NextSetup ==
  \/ Setup
  \/ Setup_subscribe
  \/ Setup_go

SpecSetup == Init /\ [][NextSetup]_vars

\* PUSH_DATA with a stat record while configurations are applied
NextCfg ==
  \/ Common
  \/ readPackets(StatInputs, MaxPackets)
  \/ \E i \in DOMAIN handlers :
       \/ handlePushData_ack(i)
       \/ handleStats(i)
  \/ ApplyConfiguration_call
  \/ \E j \in DOMAIN applies :
       \/ ApplyConfiguration(j)
       \/ applyConfiguration_prepare(j)
       \/ applyConfiguration_write(j)
       \/ applyConfiguration_restart(j)
       \/ applyConfiguration_commit(j)

SpecCfg == Init /\ [][NextCfg]_vars

\* PULL_DATA traffic of all gateways, the registry sweeper and the
\* forwarder's lifecycle loops
NextPull ==
  \/ Common
  \/ readPackets(PullInputs, MaxPackets)
  \/ Registration
  \/ Sweeping

SpecPull == Init /\ [][NextPull]_vars

\* downlink frames while a gateway registers from changing addresses
NextDown ==
  \/ Common
  \/ readPackets(PullInputs2, MaxPackets)
  \/ Registration
  \/ Downlink(DownlinkFrames2)

SpecDown == Init /\ [][NextDown]_vars

\* downlink frames for a gateway that registers and is evicted, and for a
\* gateway that never registers
NextEvict ==
  \/ Common
  \/ readPackets(PullInputs22, MaxPulls)
  \/ Registration
  \/ Sweeping
  \/ Downlink(DownlinkFramesOK)

SpecEvict == Init /\ [][NextEvict]_vars

\* TX_ACK packets, malformed packets and packets of an unknown type, next to
\* PUSH_DATA traffic that keeps the outbound channel in use
NextTXACK ==
  \/ Common
  \/ readPackets(TXACKInputs \cup PushInputs, MaxPackets)
  \/ Push
  \/ \E i \in DOMAIN handlers : handleTXACK(i)

SpecTXACK == Init /\ [][NextTXACK]_vars

\* a gateway that sends packets of every type while the sweeper runs
NextSilence ==
  \/ Common
  \/ readPackets(SilenceInputs, MaxPackets)
  \/ Registration
  \/ Push
  \/ \E i \in DOMAIN handlers : handleTXACK(i)
  \/ Sweeping

SpecSilence == Init /\ [][NextSilence]_vars

\* Close at any moment after NewBackend returned, next to PUSH_DATA traffic
NextClose ==
  \/ Common
  \/ readPackets(PushInputs, MaxPackets)
  \/ Push
  \/ reader_start
  \/ writer_start
  \/ reader_exit
  \/ writer_exit
  \/ Close_call
  \/ Close_locked
  \/ Close_wait

SpecClose == InitCreated /\ [][NextClose]_vars

\* the MQTT integration: subscribe and unsubscribe calls while the broker
\* connection is lost and made again
NextMqtt ==
  \/ mqttCall
  \/ \E j \in DOMAIN mqttCalls :
       \/ SubscribeGateway(j)
       \/ UnsubscribeGateway(j)
  \/ connectionLost
  \/ onConnectionLost
  \/ \E k \in DOMAIN onConns :
       \/ onConnected_rlock(k)
       \/ onConnected_subscribe(k)

SpecMqtt == Init /\ [][NextMqtt]_vars

\* broker messages on any topic
NextCommand ==
  \/ handleCommand
  \/ \E c \in DOMAIN commands :
       \/ handleDownlinkFrame(c)
       \/ handleGatewayConfiguration(c)

SpecCommand == Init /\ [][NextCommand]_vars

\* events and notify events published under any configuration
NextPublish ==
  \/ PublishEvent
  \/ PublishNotifyEvent

SpecPublish == InitConf /\ [][NextPublish]_vars

\* a signal at any moment while gateways register and the forwarder
\* subscribes them
NextRun ==
  \/ run_signal
  \/ run_return
  \/ processRuns /\ Common
  \/ processRuns /\ readPackets(PullInputs22, MaxPackets)
  \/ processRuns /\ Registration

SpecRun == Init /\ [][NextRun]_vars

\* gateways opening and losing websocket connections
NextStation ==
  \/ handleGateway(MaxConns)
  \/ \E c \in DOMAIN bsConns :
       \/ handleGateway_get(c)
       \/ handleGateway_set(c)
       \/ handleGateway_return(c)

SpecStation == Init /\ [][NextStation]_vars

\* router configurations sent to connected gateways, and their version
\* messages
NextStationCfg ==
  \/ handleGateway(MaxStations)
  \/ \E c \in DOMAIN bsConns :
       \/ handleGateway_get(c)
       \/ handleGateway_set(c)
       \/ handleGateway_return(c)
       \/ handleVersion(c)
  \/ bsApplyConfiguration

SpecStationCfg == Init /\ [][NextStationCfg]_vars

\* websocket connections with their ping goroutines and the messages the
\* forwarder sends to them
NextSocket ==
  \/ handleGateway(MaxStations)
  \/ \E c \in DOMAIN bsConns :
       \/ handleGateway_get(c)
       \/ handleGateway_set(c)
       \/ handleGateway_return(c)
       \/ ping_tick(c)
       \/ ping_write(c)
  \/ sendToGateway
  \/ \E k \in DOMAIN bsSends : sendToGateway_write(k)

SpecSocket == Init /\ [][NextSocket]_vars

(* ------------------------------ properties ----------------------------- *)
\* the datagrams of goroutine src that reached the socket
writesOf(src) == { p \in BagToSet(written) : p.src = src }

\* how often the socket saw a datagram of goroutine src
writeCount(src) ==
  LET RECURSIVE sum(_)
      sum(S) == IF S = {} THEN 0
                ELSE LET p == CHOOSE q \in S : TRUE
                     IN CopiesIn(p, written) + sum(S \ {p})
  IN sum(writesOf(src))

\* the acknowledgement a request is owed: same version, same token, sent to
\* the address the request came from
AckFor(i, ptype) ==
  [src |-> <<"h", i>>, addr |-> handlers[i].up.addr, ptype |-> ptype,
   ProtocolVersion |-> handlers[i].up.ProtocolVersion,
   RandomToken |-> handlers[i].up.RandomToken]

\* C1: a PUSH_DATA handler hands exactly one PUSH_ACK, with the version and
\* the token of the request and addressed to its source, to the outbound
\* channel, and it has done so before any GatewayStats or UplinkFrame of the
\* packet is emitted; the socket sees that PUSH_ACK at most once
C1_PushAckBeforeEvents ==
  \A i \in DOMAIN handlers :
    LET h == handlers[i]
    IN h.up.ptype = "PushData" =>
         /\ Len(h.acks) <= 1
         /\ \A k \in DOMAIN h.acks : h.acks[k] = AckFor(i, "PushACK")
         /\ (h.events # << >> => Len(h.acks) = 1)
         /\ (h.pc = "done" /\ h.up.ok => Len(h.acks) = 1)
         /\ writeCount(<<"h", i>>) <= 1
         /\ \A p \in writesOf(<<"h", i>>) : p = AckFor(i, "PushACK")

\* a PUSH_DATA with a stat record and rxpk records was handled to its end and
\* its PUSH_ACK was written to the socket
C1_Witness ==
  \E i \in DOMAIN handlers :
    /\ handlers[i].up.ptype = "PushData"
    /\ handlers[i].pc = "done"
    /\ Len(handlers[i].events) = 1 + MaxRxpk
    /\ writesOf(<<"h", i>>) # {}

C3_NoUnsubscribeOfAlwaysSubscribed ==
  \A id \in GatewayIDs :
    found(id) =>
      /\ unsubscribeCalls[id] = 0
      /\ ~(discLoop.pc = "unsubscribe" /\ discLoop.id = id)

\* the disconnect loop received the disconnect event of an always-subscribed
\* gateway that was evicted
C3_Witness ==
  /\ found(discLoop.id)
  /\ discLoop.pc # "recv"
  /\ discLoop.id \notin DOMAIN gateways

\* C4: the connect loop and the disconnect loop skip the event of an id of
\* alwaysSubscribe and keep processing: neither loop ever exits
C4_LoopsKeepProcessing ==
  /\ connLoop.pc # "exited"
  /\ discLoop.pc # "exited"

\* C5: a GatewayStats is emitted with the version of the last successful
\* ApplyConfiguration for its gateway id, and with no version when there was
\* none
C5_StatsCarryAppliedVersion ==
  [][ \A i \in DOMAIN handlers :
        (handlers[i].pc = "stats" /\ handlers'[i].pc # "stats") =>
          LET e == handlers'[i].events[Len(handlers'[i].events)]
          IN /\ Len(handlers'[i].events) = Len(handlers[i].events) + 1
             /\ e.kind = "stats"
             /\ e.GatewayId = handlers[i].up.GatewayMAC
             /\ e.ConfigVersion = lastApplied[e.GatewayId] ]_vars

\* a GatewayStats was emitted that carries an applied version
C5_Witness ==
  \E i \in DOMAIN handlers :
    \E k \in DOMAIN handlers[i].events :
      /\ handlers[i].events[k].kind = "stats"
      /\ handlers[i].events[k].ConfigVersion \in ConfigVersions
      /\ handlers[i].events[k].ConfigVersion = lastApplied[handlers[i].up.GatewayMAC]

\* C6: an ApplyConfiguration call that met an error at any step has returned
\* that error, and currentVersion changes only in the step in which a call
\* that met no error returns success
C6_FailedApplyKeepsVersions ==
  [][ /\ \A j \in DOMAIN applies' :
           applies'[j].failed # "" =>
             /\ applies'[j].pc = "done"
             /\ applies'[j].err = applies'[j].failed
      /\ configurations' # configurations =>
           \E j \in DOMAIN applies :
             /\ applies[j].pc = "lock2"
             /\ applies'[j].pc = "done"
             /\ applies'[j].failed = ""
             /\ applies'[j].err = "" ]_vars

\* an ApplyConfiguration failed at the restart command, after the output file
\* was written, and the version of its gateway is still the one before
C6_Witness ==
  \E j \in DOMAIN applies :
    /\ applies[j].pc = "done"
    /\ applies[j].err = "invoke packet-forwarder restart error"
    /\ outputFile[applies[j].config.GatewayId] = applies[j].config.Version
    /\ ConfigVersionOf(applies[j].config.GatewayId) = NoVersion

\* C7: a SendDownlinkFrame for an id without registry entry has returned
\* "gateway does not exist", holds no packet, handed nothing to the outbound
\* channel, and nothing of it reaches the writer or the socket
C7_UnknownGatewayNotBuffered ==
  \A j \in DOMAIN downlinks :
    downlinks[j].reg # "present" =>
      /\ downlinks[j].pc = "done"
      /\ downlinks[j].err = "gateway does not exist"
      /\ downlinks[j].p = << >>
      /\ downlinks[j].sent = << >>
      /\ writesOf(<<"d", j>>) = {}
      /\ (sender.pc = "write" => sender.p.src # <<"d", j>>)

\* a downlink frame was sent for a gateway whose entry had been evicted
C7_Witness ==
  \E j \in DOMAIN downlinks :
    /\ downlinks[j].reg = "evicted"
    /\ downlinks[j].pc = "done"

\* C8: a SendDownlinkFrame for a registered gateway (with a frame that
\* encodes) hands exactly one PULL_RESP to the outbound channel: addressed to
\* the source of the PULL_DATA that last wrote the registry entry, in the
\* protocol version of that PULL_DATA, with the low 16 bits of frame.Token
C8_PullRespToLastPullData ==
  \A j \in DOMAIN downlinks :
    LET d == downlinks[j]
    IN d.reg = "present" /\ d.frame.encodable =>
         /\ d.err = ""
         /\ d.pull \in DOMAIN handlers
         /\ d.p.src = <<"d", j>>
         /\ d.p.ptype = "PullResp"
         /\ d.p.addr = handlers[d.pull].up.addr
         /\ d.p.ProtocolVersion = handlers[d.pull].up.ProtocolVersion
         /\ d.p.RandomToken \in 0..(TokenMod - 1)
         /\ (d.frame.Token - d.p.RandomToken) % TokenMod = 0
         /\ Len(d.sent) <= 1
         /\ \A k \in DOMAIN d.sent : d.sent[k] = d.p
         /\ (d.pc = "done" => Len(d.sent) = 1)
         /\ writeCount(<<"d", j>>) <= 1
         /\ \A p \in writesOf(<<"d", j>>) : p = d.p

\* a frame whose Token exceeds 16 bits was written to a gateway that had sent
\* PULL_DATA from two addresses
C8_Witness ==
  \E j \in DOMAIN downlinks :
    /\ downlinks[j].pc = "done"
    /\ downlinks[j].frame.Token >= TokenMod
    /\ writesOf(<<"d", j>>) # {}
    /\ \E i \in DOMAIN handlers :
         /\ i < downlinks[j].pull
         /\ handlers[i].pc = "done"
         /\ handlers[i].up.GatewayMAC = downlinks[j].frame.GatewayId
         /\ handlers[i].up.addr # downlinks[j].p.addr

\* C9: a TX_ACK handler emits exactly one DownlinkTXAck, with the MAC and the
\* token of the packet and with the payload's error, empty when the payload
\* is missing or its error is empty or "NONE"; it sends no datagram
C9_TXAckEvent ==
  \A i \in DOMAIN handlers :
    LET h == handlers[i]
    IN h.up.ptype = "TXACK" =>
         /\ h.acks = << >>
         /\ writesOf(<<"h", i>>) = {}
         /\ Len(h.events) <= 1
         /\ (h.pc = "done" /\ h.up.ok => Len(h.events) = 1)
         /\ \A k \in DOMAIN h.events :
              /\ h.events[k].kind = "ack"
              /\ h.events[k].GatewayId = h.up.GatewayMAC
              /\ h.events[k].Token = h.up.RandomToken
              /\ h.events[k].Error =
                   (IF h.up.txerr \in {"nil", "", "NONE"} THEN "" ELSE h.up.txerr)

\* a TX_ACK with error TOO_LATE and one with error NONE were handled
C9_Witness ==
  /\ \E i \in DOMAIN handlers :
       /\ handlers[i].up.txerr = "TOO_LATE"
       /\ handlers[i].events # << >>
  /\ \E i \in DOMAIN handlers :
       /\ handlers[i].up.txerr = "NONE"
       /\ handlers[i].events # << >>

C11_EvictionEmitsDisconnect ==
  ~(sweeper.pending # {} /\ discLoop.pc = "exited")

\* the registry entries removed by the step
removedEntries == { id \in DOMAIN gateways : id \notin DOMAIN gateways' }

\* C12 as stated: an entry is not removed while a packet of any type of its
\* gateway was handled within the last CleanupAge seconds
C12_AnyPacketKeepsAlive ==
  [][ \A id \in removedEntries :
        ~ \E i \in DOMAIN handlers :
            /\ handlers[i].up.GatewayMAC = id
            /\ handlers[i].up.ok
            /\ handlers[i].pc = "done"
            /\ now - handlers[i].at <= CleanupAge ]_vars

\* C12, amended: lastSeen is written by the set of a PULL_DATA handler only,
\* with the time of the set; an entry is removed, and a disconnect event
\* queued, only when its last PULL_DATA is older than CleanupAge
C12_PullDataKeepsAlive ==
  [][ /\ \A id \in removedEntries : now - gateways[id].lastSeen > CleanupAge
      /\ sweeper'.pending \ sweeper.pending \subseteq removedEntries
      /\ \A id \in DOMAIN gateways' :
           (id \notin DOMAIN gateways \/ gateways'[id] # gateways[id]) =>
             /\ gateways'[id].lastSeen = now
             /\ \E i \in DOMAIN handlers :
                  /\ handlers[i].up.ptype = "PullData"
                  /\ handlers[i].up.GatewayMAC = id
                  /\ handlers[i].pc = "set"
                  /\ handlers'[i].pc # "set" ]_vars

\* a gateway sent PULL_DATA at 0 s and at 60 s, and the sweep at 60 s left its
\* entry in the registry: it connected once and never disconnected
C12_Witness ==
  /\ 2 \in DOMAIN gateways
  /\ gateways[2].lastSeen = SweepInterval
  /\ sweeper.nextRun = 2 * SweepInterval
  /\ subscribeCalls[2] = 1
  /\ \A i \in DOMAIN handlers : handlers[i].pc = "done"

\* C13: when Close has returned nil the closed flag is set, the socket and
\* the outbound channel are closed and both I/O goroutines have exited
C13_CloseWaitsForIO ==
  (closeCall.pc = "returned" /\ closeCall.err = "") =>
    /\ closed
    /\ conn = "closed"
    /\ udpSendChan = "closed"
    /\ reader = "exited"
    /\ sender.pc = "exited"

\* C14: when the onConnected of the current connection has returned and the
\* connection is up, the broker holds a subscription for exactly the ids of
\* the known-subscriptions set; the broker never holds one for another id
C14_ResubscribedAfterReconnect ==
  /\ brokerSubs \subseteq mqttGateways
  /\ \A k \in DOMAIN onConns :
       (onConns[k].pc = "done" /\ onConns[k].conn = mqttConn.n /\ mqttConn.up)
         => brokerSubs = mqttGateways

\* the connection was lost and made again, and onConnected has returned
\* after it re-subscribed two gateways
C14_Witness ==
  /\ mqttConn.up
  /\ Cardinality(mqttGateways) = 2
  /\ \E k \in DOMAIN onConns :
       /\ onConns[k].pc = "done"
       /\ onConns[k].conn = mqttConn.n
       /\ onConns[k].todo = {}

\* C15: the known-subscriptions set holds an id exactly when the last
\* successful call for the id was a subscribe; a call that has returned an
\* error changed nothing, and every change of the set is a call's success
C15_KnownSetFollowsSuccess ==
  [][ /\ \A id \in GatewayIDs : id \in mqttGateways' <=> lastOk'[id] = "subscribe"
      /\ \A j \in DOMAIN mqttCalls :
           (mqttCalls[j].pc = "lock" /\ mqttCalls'[j].pc = "done") =>
             IF mqttCalls'[j].err = ""
             THEN mqttGateways' =
                    IF mqttCalls[j].op = "subscribe"
                    THEN mqttGateways \cup {mqttCalls[j].id}
                    ELSE mqttGateways \ {mqttCalls[j].id}
             ELSE mqttGateways' = mqttGateways
      /\ mqttGateways' # mqttGateways =>
           \E j \in DOMAIN mqttCalls :
             /\ mqttCalls[j].pc = "lock"
             /\ mqttCalls'[j].pc = "done"
             /\ mqttCalls'[j].err = "" ]_vars

\* a subscribe failed and left the id out of the set, and an unsubscribe
\* failed and left its id in
C15_Witness ==
  /\ \E j \in DOMAIN mqttCalls :
       /\ mqttCalls[j].op = "subscribe"
       /\ mqttCalls[j].err # ""
       /\ mqttCalls[j].id \notin mqttGateways
  /\ \E j \in DOMAIN mqttCalls :
       /\ mqttCalls[j].op = "unsubscribe"
       /\ mqttCalls[j].err # ""
       /\ mqttCalls[j].id \in mqttGateways

\* C17: a connection loss always leads to a completed connectLoop: the
\* connect of onConnectionLost never waits for a lock that an onConnected
\* holds on a dead connection
C17_LossLeadsToConnect ==
  ~ /\ lostHandler.pc = "connect"
    /\ ~mqttConn.up
    /\ \E k \in DOMAIN onConns : mqttHoldsRLock(k)

\* C16 as stated: a handled message with a down topic and a decodable payload
\* has put one DownlinkFrame on the downlink channel, one with a config topic
\* and a decodable payload one GatewayConfiguration on the configuration
\* channel, and any other message nothing
C16_CommandByTopic ==
  \A c \in DOMAIN commands :
    LET m == commands[c].msg
    IN /\ Len(commands[c].out) <= 1
       /\ commands[c].pc = "done" =>
            /\ (isDown(m.topic) /\ m.okDown) =>
                 commands[c].out = << "downlinkFrameChan" >>
            /\ (isConfig(m.topic) /\ m.okConfig) =>
                 commands[c].out = << "gatewayConfigurationChan" >>
            /\ (~(isDown(m.topic) /\ m.okDown) /\ ~(isConfig(m.topic) /\ m.okConfig))
                 => commands[c].out = << >>

\* C16, amended: the down test comes first; a config topic counts only when
\* the topic is not a down topic as well
C16_CommandByTopicDownFirst ==
  \A c \in DOMAIN commands :
    LET m == commands[c].msg
    IN /\ Len(commands[c].out) <= 1
       /\ commands[c].pc = "done" =>
            commands[c].out =
              IF isDown(m.topic)
              THEN (IF m.okDown THEN << "downlinkFrameChan" >> ELSE << >>)
              ELSE IF isConfig(m.topic)
              THEN (IF m.okConfig THEN << "gatewayConfigurationChan" >> ELSE << >>)
              ELSE << >>

\* a message whose topic contains command=config and does not end in config
\* was delivered on the configuration channel
C16_Witness ==
  \E c \in DOMAIN commands :
    /\ commands[c].out = << "gatewayConfigurationChan" >>
    /\ ~HasSuffix(commands[c].msg.topic, strConfig)

\* the topic C18 names for a call under the GCP or the Azure override
mandatedTopic(auth, call, args) ==
  IF call = "PublishNotifyEvent" THEN << "/devices/notify/", args[1] >>
  ELSE IF auth = "gcp_cloud_iot_core"
  THEN << "/devices/gw-", args[1], "/events/", args[2] >>
  ELSE << "devices/", args[1], "/messages/events/", args[2] >>

\* C18: with auth type gcp_cloud_iot_core or azure_iot_hub every
\* PublishEvent(id, type) goes to /devices/gw-{id}/events/{type} (GCP) or
\* devices/{id}/messages/events/{type} (Azure) and every
\* PublishNotifyEvent(type) to /devices/notify/{type}, whatever was configured
C18_OverrideTopics ==
  templates.authType \in { "gcp_cloud_iot_core", "azure_iot_hub" } =>
    \A k \in DOMAIN publishes :
      /\ publishes[k].err # "template"
      /\ publishes[k].topic =
           mandatedTopic(templates.authType, publishes[k].call, publishes[k].args)

\* C18, the PublishEvent half alone, which the code meets
C18_EventTopics ==
  templates.authType \in { "gcp_cloud_iot_core", "azure_iot_hub" } =>
    \A k \in DOMAIN publishes :
      publishes[k].call = "PublishEvent" =>
        /\ publishes[k].err # "template"
        /\ publishes[k].topic =
             mandatedTopic(templates.authType, publishes[k].call, publishes[k].args)

\* C19: when the process has exited after SIGINT or SIGTERM, the backend's
\* Close was called and has returned, the integration's Close was called
\* after it, and both forwarder lifecycle loops have ended
C19_GracefulShutdown ==
  process.pc = "exited" =>
    /\ process.calls = << "backend.Close", "integration.Close" >>
    /\ closeCall.pc = "returned"
    /\ connLoop.pc = "exited"
    /\ discLoop.pc = "exited"

\* the connections whose receive loop is live for the id
liveLoops(id) ==
  { c \in DOMAIN bsConns : bsConns[c].id = id /\ bsConns[c].pc = "loop" }

\* C20: at most one gateway loop is live per gateway id, and the registry
\* entry of an id with a live loop is that loop's connection
C20_OneLoopPerGateway ==
  \A id \in GatewayIDs :
    /\ Cardinality(liveLoops(id)) <= 1
    /\ \A c \in liveLoops(id) : bsGateways[id].conn = c

\* C21: a GatewayStats of the Basic Station backend emitted after an
\* ApplyConfiguration for its id returned nil carries the version of the
\* last such call
C21_StatsCarryAppliedVersion ==
  \A k \in DOMAIN bsStats :
    bsStats[k].applied # NoVersion =>
      bsStats[k].ConfigVersion = bsStats[k].applied

\* C22: a gateway loop that registered its id and has exited removed the
\* entry and emitted exactly one disconnect event; a connection rejected as
\* a duplicate removed nothing and emitted none
C22_ExitRemovesAndDisconnects ==
  \A c \in DOMAIN bsConns :
    /\ bsConns[c].pc = "returned" =>
         /\ bsConns[c].removed
         /\ bsConns[c].disconnects = 1
    /\ bsConns[c].pc = "rejected" =>
         /\ ~bsConns[c].removed
         /\ bsConns[c].disconnects = 0

\* C23: among the events of one PUSH_DATA packet the GatewayStats is
\* delivered before every UplinkFrame, and the UplinkFrames are delivered in
\* the order of the rxpk records; a handled packet has delivered all of them
C23_EventsInOrder ==
  \A i \in DOMAIN handlers :
    LET h == handlers[i]
        ev == h.events
        first == IF h.up.stat = "ok" THEN 1 ELSE 0
    IN h.up.ptype = "PushData" =>
         /\ \A a \in DOMAIN ev :
              IF a <= first THEN ev[a].kind = "stats"
              ELSE ev[a].kind = "up" /\ ev[a].rxpk = a - first
         /\ (h.pc = "done" /\ h.err = "" /\ h.up.ok /\ h.acks # << >>) =>
              Len(ev) = first + h.up.rxpk

\* a packet with a stat record and two rxpk records has delivered all three
\* events
C23_Witness ==
  \E i \in DOMAIN handlers :
    /\ handlers[i].pc = "done"
    /\ handlers[i].up.stat = "ok"
    /\ handlers[i].up.rxpk = 2
    /\ Len(handlers[i].events) = 3

\* C24: of two packets of one gateway that are both acknowledged, the one
\* read first has its ACK on the outbound channel first: the later packet
\* never has its ACK placed while the earlier one has not
C24_AcksInArrivalOrder ==
  \A i \in DOMAIN handlers : \A j \in DOMAIN handlers :
    ( /\ i < j
      /\ handlers[i].up.GatewayMAC = handlers[j].up.GatewayMAC
      /\ handlers[i].up.ok /\ handlers[j].up.ok
      /\ handlers[j].acks # << >> )
    => handlers[i].acks # << >>

\* handler i is suspended in b.udpSendChan <- ack: the writer goroutine is
\* busy with another datagram
blockedOnSend(i) ==
  /\ handlers[i].pc \in {"pushAck", "pullAck"}
  /\ sender.pc # "recv"

\* C25: no packet handler is suspended on a channel send while it holds the
\* backend's reader-writer lock
C25_NoLockAcrossSend ==
  \A i \in DOMAIN handlers : ~(blockedOnSend(i) /\ HoldsRLock(i))

\* C26: an ApplyConfiguration that returned an error has left output_file
\* as it was before the call; for the only call of its gateway id that is
\* the content the file had from the start
C26_FailedApplyKeepsFile ==
  \A j \in DOMAIN applies :
    LET id == applies[j].config.GatewayId
    IN ( /\ applies[j].pc = "done"
         /\ applies[j].err # ""
         /\ \A k \in DOMAIN applies : k # j => applies[k].config.GatewayId # id )
       => outputFile[id] = NoVersion

\* C27: every publish call of the forwarder is the only call for its event
\* and is of the event's kind: PublishEvent "up", "stats" or "ack" with the
\* event's gateway id, or PublishNotifyEvent "mac", with the event as message
C27_OneMatchingPublish ==
  \A f \in forwarded :
    LET e == handlers[f.src[1]].events[f.src[2]]
    IN /\ Cardinality(callsOf(f.src)) = 1
       /\ f.msg = e.GatewayId
       /\ IF e.kind = "notify"
          THEN f.call = "PublishNotifyEvent" /\ f.args = << "mac" >>
          ELSE f.call = "PublishEvent" /\ f.args = << e.GatewayId, e.kind >>

\* the stats and the uplink frame of one packet have both been published,
\* one of the two publishes failed
C27_Witness ==
  \E f \in forwarded : \E g \in forwarded :
    /\ f.src[1] = g.src[1]
    /\ f.call = "PublishEvent" /\ f.args[2] = "stats" /\ f.err = "publish"
    /\ g.call = "PublishEvent" /\ g.args[2] = "up" /\ g.err = ""

\* C28: while the action for one message is still running, the forward loop
\* receives the next message: no sender of a connect event waits while
\* onConnectedLoop is inside SubscribeGateway for an earlier event
C28_LoopNeverStallsSender ==
  ~( /\ connLoop.pc = "subscribe"
     /\ \E i \in DOMAIN handlers : handlers[i].pc = "connect" )

\* C29: every frame taken from the integration's downlink channel causes at
\* most one SendDownlinkFrame call, made with that frame; a call that failed
\* put nothing on the outbound channel, and the datagram of a call is sent
\* and written at most once
C29_DownlinkNeverRetried ==
  \A k \in DOMAIN taken :
    /\ Len(taken[k].calls) <= 1
    /\ \A n \in DOMAIN taken[k].calls :
         LET j == taken[k].calls[n]
             d == downlinks[j]
         IN /\ d.frame = taken[k].frame
            /\ Len(d.sent) <= 1
            /\ d.err # "" => d.sent = << >>
            /\ writeCount(<<"d", j>>) <= 1

\* the call for the first frame failed, and the frame taken after it was
\* sent and written to the socket
C29_Witness ==
  /\ Len(taken) = 2
  /\ taken[1].calls = << 1 >>
  /\ downlinks[1].err # ""
  /\ taken[2].calls = << 2 >>
  /\ downlinks[2].err = ""
  /\ writeCount(<<"d", 2>>) = 1

\* C30: with the backend or the integration not set, Setup returns an error
\* with no subscribe issued and no loop launched; a loop is launched only
\* after every configured entry had its one SubscribeGateway, in order and
\* successfully; after a failed subscribe Setup has returned the error and
\* no loop is launched; a Setup that returned nil launched every loop
C30_SetupSubscribesBeforeLoops ==
  /\ (setup.pc # "new" /\ ~(setup.b /\ setup.i)) =>
       /\ setup.subs = << >>
       /\ setup.loops = << >>
       /\ setup.pc = "returned"
       /\ setup.err # ""
  /\ setup.loops # << >> =>
       /\ Len(setup.subs) = Len(setup.conf)
       /\ \A k \in DOMAIN setup.subs :
            /\ setup.subs[k].id = UnmarshalText(setup.conf[k]).id
            /\ setup.subs[k].ok
  /\ (\E k \in DOMAIN setup.subs : ~setup.subs[k].ok) =>
       /\ setup.loops = << >>
       /\ setup.pc = "returned"
       /\ setup.err = "subscribe gateway error"
  /\ (setup.pc = "returned" /\ setup.err = "") => setup.loops = Loops

\* two configured ids were subscribed and every loop was launched
C30_Witness ==
  /\ setup.pc = "returned"
  /\ setup.err = ""
  /\ Len(setup.conf) = 2
  /\ Len(setup.subs) = 2
  /\ setup.loops = Loops

\* C31: Init of the authentication provider is called once, as the first
\* call; every connect attempt at the broker comes right after a successful
\* Update made by the same connectLoop iteration, so that a failed Update is
\* never followed by a connect of that iteration
C31_UpdateBeforeEveryConnect ==
  /\ \A n \in DOMAIN bAuth.calls : bAuth.calls[n].op = "Init" <=> n = 1
  /\ mqttNew # "new" => bAuth.calls # << >>
  /\ \A n \in DOMAIN bAuth.calls :
       bAuth.calls[n].op = "Connect" =>
         /\ n > 1
         /\ bAuth.calls[n - 1] =
              [op |-> "Update", ok |-> TRUE, loop |-> bAuth.calls[n].loop]
  /\ Len(clients) =
       Cardinality({ n \in DOMAIN bAuth.calls : bAuth.calls[n].op = "Connect" })

\* the first connect, a retry after a failed Update, a connect after a
\* connection loss and a periodic reconnect have all happened
C31_Witness ==
  /\ \E n \in DOMAIN bAuth.calls :
       /\ bAuth.calls[n] = [op |-> "Update", ok |-> FALSE, loop |-> 1]
       /\ n < Len(bAuth.calls)
       /\ bAuth.calls[n + 1].op = "Update"
  /\ \E l \in DOMAIN connectLoops :
       connectLoops[l] = [by |-> "lost", pc |-> "done"]
  /\ \E l \in DOMAIN connectLoops :
       connectLoops[l] = [by |-> "reconnect", pc |-> "done"]

\* the connectLoop calls that have not returned
runningLoops == { l \in DOMAIN connectLoops : connectLoops[l].pc = "connect" }

\* C36: at most one connectLoop runs at any time, and a connected client is
\* the one b.conn references, so at most one client is connected
C36_OneConnectLoop ==
  /\ Cardinality(runningLoops) <= 1
  /\ \A c \in DOMAIN clients : clients[c].state = "connected" => c = bConn

\* C37: no client is connected to the broker after Close has returned
C37_NoConnectAfterClose ==
  \A c \in DOMAIN clients :
    clients[c].afterClose => clients[c].state = "failed"

\* C32: no goroutine sends on udpSendChan after Close has closed it: no
\* packet handler is at the send of its acknowledgement and no
\* SendDownlinkFrame call is at or past its send when the channel is closed
C32_NoSendOnClosedChannel ==
  udpSendChan = "closed" =>
    /\ \A i \in DOMAIN handlers : handlers[i].pc \notin {"pushAck", "pullAck"}
    /\ \A j \in DOMAIN downlinks : downlinks[j].pc \notin {"send", "panic"}

\* C33: every packet handler and every ApplyConfiguration call eventually
\* returns
C33_EveryCallReturns ==
  /\ \A i \in 1..MaxPackets :
       (i \in DOMAIN handlers) ~>
         (i \in DOMAIN handlers /\ handlers[i].pc = "done")
  /\ \A j \in 1..MaxApplies :
       (j \in DOMAIN applies) ~>
         (j \in DOMAIN applies /\ applies[j].pc = "done")

\* the last call the lifecycle loops made for an id
lastLifecycleCall(id) ==
  LET S == { n \in DOMAIN lifecycle : lifecycle[n].id = id }
  IN IF S = {} THEN "none"
     ELSE lifecycle[CHOOSE n \in S : \A m \in S : m <= n].op

\* every emitted connect and disconnect event has been received and its
\* integration call has returned
lifecycleQuiet ==
  /\ \A i \in DOMAIN handlers : handlers[i].pc # "connect"
  /\ sweeper.pending = {}
  /\ connLoop.pc = "recv"
  /\ discLoop.pc = "recv"

\* C34: once every lifecycle event is processed, an id that is not always
\* subscribed is subscribed (the last call made for it is SubscribeGateway)
\* exactly when the registry holds an entry for it
C34_SubscribedIffRegistered ==
  lifecycleQuiet =>
    \A id \in GatewayIDs :
      ~found(id) =>
        (lastLifecycleCall(id) = "subscribe" <=> id \in DOMAIN gateways)

\* the goroutines inside a write on connection c
writersOn(c) ==
  (IF pings[c].pc = "write" THEN { << "ping", c >> } ELSE {})
  \cup { << "send", k >> : k \in { n \in DOMAIN bsSends :
           bsSends[n].pc = "write" /\ bsSends[n].conn = c } }

\* C35: at most one goroutine is inside a write on a websocket connection
C35_OneWriterPerConnection ==
  \A c \in DOMAIN bsConns : Cardinality(writersOn(c)) <= 1

\* the ping goroutines that have not terminated, and the connections whose
\* websocketWrap has not returned
livePings == { c \in DOMAIN pings : pings[c].pc # "exited" }
openConns == { c \in DOMAIN bsConns : ~wrapReturned(c) }

\* C39: the ping goroutine of a connection whose handler has returned has
\* terminated, and there are never more live ping goroutines than open
\* connections
C39_PingEndsWithConnection ==
  /\ \A c \in DOMAIN bsConns : wrapReturned(c) => pings[c].pc = "exited"
  /\ Cardinality(livePings) <= Cardinality(openConns)

\* the current_version of the configuration of an id
currentVersionOf(id) ==
  LET k == CHOOSE k \in DOMAIN configurations : configurations[k].gatewayID = id
  IN configurations[k].currentVersion

\* C38: when every ApplyConfiguration call has returned and all of them
\* returned nil, current_version of a configured gateway is the version of
\* the content written last to its output_file
C38_VersionMatchesFile ==
  (\A j \in DOMAIN applies : applies[j].pc = "done" /\ applies[j].err = "") =>
    \A id \in GatewayIDs :
      (hasConfiguration(id) /\ outputFile[id] # NoVersion) =>
        currentVersionOf(id) = outputFile[id]

\* C40: once Close has returned, with or without an error, the backend lock
\* is free: a packet handler is admitted to b.RLock() unless an
\* ApplyConfiguration call is waiting for the lock
C40_CloseReleasesLock ==
  (closeCall.pc = "returned" /\ ~WriterWaiting) => CanRLock

====
